---------------------------- MODULE Spec2Model ----------------------------
(***************************************************************************)
(* Holiday Calendar API (rapidapi-deployment/server.js): the GET /holidays *)
(* pipeline (rate limiting, validateHolidayRequest, fetchHolidays, the     *)
(* route handler) and the ICS encoder (generateICS and its helpers).       *)
(*                                                                         *)
(* Texts.  A JavaScript string is a sequence of tokens.  A string that is  *)
(* data (a query parameter, a field of a holiday, a digit string) is split *)
(* into its characters, one token each.  A string literal of the program   *)
(* that no regular expression and no case conversion ever reads            *)
(* ('BEGIN:VEVENT', 'SUMMARY:', ' Public Holidays ') is one token.  Str    *)
(* flattens a text into the string it stands for, so two texts are the     *)
(* same JavaScript string exactly when their Str are equal.                *)
(*                                                                         *)
(* Values.  A JavaScript value is a record [k, s]: k is its type           *)
(* ("string", "undefined", "null", "number") and s the text of a string    *)
(* (<<>> for the other types).  "number" stands for a non-zero number, a   *)
(* truthy value that has no string methods.                                *)
(***************************************************************************)
EXTENDS Integers, Sequences, FiniteSets, TLC

-----------------------------------------------------------------------------
(* Bounds of the model. *)

\* Longest array an external source answers with.
MaxRecords == 2

\* Requests followed after a limiter has begun to refuse.
MaxOver == 1

\* Calls of generateICS followed on the same records and options.
MaxCalls == 2

\* Longest text handed to escapeText character by character.
MaxText == 3

\* Requests the server handles at the same time.
MaxConcurrent == 2

-----------------------------------------------------------------------------
(* Texts and JavaScript values. *)

Range(f) == {f[i] : i \in DOMAIN f}

RECURSIVE Str(_)
Str(t) == IF t = <<>> THEN "" ELSE Head(t) \o Str(Tail(t))

RECURSIVE Flatten(_)
Flatten(ts) ==
  IF ts = <<>> THEN <<>>
  ELSE IF Len(ts) = 1 THEN ts[1]
  ELSE LET m == Len(ts) \div 2
       IN  Flatten(SubSeq(ts, 1, m)) \o Flatten(SubSeq(ts, m + 1, Len(ts)))

Lowers == <<"a","b","c","d","e","f","g","h","i","j","k","l","m",
            "n","o","p","q","r","s","t","u","v","w","x","y","z">>
Uppers == <<"A","B","C","D","E","F","G","H","I","J","K","L","M",
            "N","O","P","Q","R","S","T","U","V","W","X","Y","Z">>
Digits == <<"0","1","2","3","4","5","6","7","8","9">>

CR == "\r"
LF == "\n"
BACKSLASH == "\\"

\* String.prototype.toUpperCase / toLowerCase, character by character.
UpperChar(c) == IF \E i \in DOMAIN Lowers : Lowers[i] = c
                THEN Uppers[CHOOSE i \in DOMAIN Lowers : Lowers[i] = c]
                ELSE c
LowerChar(c) == IF \E i \in DOMAIN Uppers : Uppers[i] = c
                THEN Lowers[CHOOSE i \in DOMAIN Uppers : Uppers[i] = c]
                ELSE c

\* toUpperCase leaving the text as it is.
toUpperCaseUnchanged(t) == [i \in DOMAIN t |-> t[i]]

toUpperCase(t) == [i \in DOMAIN t |-> UpperChar(t[i])]
toLowerCase(t) == [i \in DOMAIN t |-> LowerChar(t[i])]

\* The character class [a-zA-Z0-9].
IsAlnum(c) == c \in Range(Lowers) \cup Range(Uppers) \cup Range(Digits)

\* text.replace(/c/g, by) for a one-character pattern c.
ReplaceAll(t, c, by) ==
  Flatten([i \in DOMAIN t |-> IF t[i] = c THEN by ELSE <<t[i]>>])

JSString(t) == [k |-> "string", s |-> t]
Undefined == [k |-> "undefined", s |-> <<>>]
Null == [k |-> "null", s |-> <<>>]
NumberValue == [k |-> "number", s |-> <<>>]

IsString(v) == v.k = "string"
\* ToBoolean(v): the empty string, undefined and null are falsy.
Truthy(v) == \/ v.k = "number"
             \/ v.k = "string" /\ v.s # <<>>
\* a !== b taken to hold always.
StrictNotEqualAlways(a, b) == a = a /\ b = b

\* a !== b
StrictNotEqual(a, b) == ~(a.k = b.k /\ a.s = b.s)

\* Number.prototype.toString of a non-negative integer (the `${year}` of a
\* template literal).
RECURSIVE NumberToString(_)
NumberToString(n) ==
  IF n < 10 THEN <<Digits[n + 1]>>
  ELSE NumberToString(n \div 10) \o <<Digits[(n % 10) + 1]>>

-----------------------------------------------------------------------------
(* The static data of the program. *)

VALID_COUNTRIES ==
  {"AD", "AE", "AF", "AG", "AI", "AL", "AM", "AO", "AQ", "AR", "AS", "AT", "AU", "AW", "AX", "AZ",
   "BA", "BB", "BD", "BE", "BF", "BG", "BH", "BI", "BJ", "BL", "BM", "BN", "BO", "BQ", "BR", "BS",
   "BT", "BV", "BW", "BY", "BZ", "CA", "CC", "CD", "CF", "CG", "CH", "CI", "CK", "CL", "CM", "CN",
   "CO", "CR", "CU", "CV", "CW", "CX", "CY", "CZ", "DE", "DJ", "DK", "DM", "DO", "DZ", "EC", "EE",
   "EG", "EH", "ER", "ES", "ET", "FI", "FJ", "FK", "FM", "FO", "FR", "GA", "GB", "GD", "GE", "GF",
   "GG", "GH", "GI", "GL", "GM", "GN", "GP", "GQ", "GR", "GS", "GT", "GU", "GW", "GY", "HK", "HM",
   "HN", "HR", "HT", "HU", "ID", "IE", "IL", "IM", "IN", "IO", "IQ", "IR", "IS", "IT", "JE", "JM",
   "JO", "JP", "KE", "KG", "KH", "KI", "KM", "KN", "KP", "KR", "KW", "KY", "KZ", "LA", "LB", "LC",
   "LI", "LK", "LR", "LS", "LT", "LU", "LV", "LY", "MA", "MC", "MD", "ME", "MF", "MG", "MH", "MK",
   "ML", "MM", "MN", "MO", "MP", "MQ", "MR", "MS", "MT", "MU", "MV", "MW", "MX", "MY", "MZ", "NA",
   "NC", "NE", "NF", "NG", "NI", "NL", "NO", "NP", "NR", "NU", "NZ", "OM", "PA", "PE", "PF", "PG",
   "PH", "PK", "PL", "PM", "PN", "PR", "PS", "PT", "PW", "PY", "QA", "RE", "RO", "RS", "RU", "RW",
   "SA", "SB", "SC", "SD", "SE", "SG", "SH", "SI", "SJ", "SK", "SL", "SM", "SN", "SO", "SR", "SS",
   "ST", "SV", "SX", "SY", "SZ", "TC", "TD", "TF", "TG", "TH", "TJ", "TK", "TL", "TM", "TN", "TO",
   "TR", "TT", "TV", "TW", "TZ", "UA", "UG", "UM", "US", "UY", "UZ", "VA", "VC", "VE", "VG", "VI",
   "VN", "VU", "WF", "WS", "YE", "YT", "ZA", "ZM", "ZW"}

\* One entry of the static table: { date, name, description, type }.
StaticRecord(date, name, description, type) ==
  [date |-> JSString(date), name |-> JSString(name),
   description |-> JSString(description), type |-> JSString(type),
   observed |-> Undefined]

Table_US_2025 ==
  <<
    StaticRecord(<<"2","0","2","5","-","0","1","-","0","1">>,
                 <<"N","e","w"," ","Y","e","a","r","'","s"," ","D","a","y">>,
                 <<"T","h","e"," ","f","i","r","s","t"," ","d","a","y"," ","o","f"," ","t","h","e"," ","G","r","e","g","o","r","i","a","n"," ","c","a","l","e","n","d","a","r"," ","y","e","a","r">>,
                 <<"p","u","b","l","i","c">>),
    StaticRecord(<<"2","0","2","5","-","0","1","-","2","0">>,
                 <<"M","a","r","t","i","n"," ","L","u","t","h","e","r"," ","K","i","n","g"," ","J","r","."," ","D","a","y">>,
                 <<"F","e","d","e","r","a","l"," ","h","o","l","i","d","a","y"," ","h","o","n","o","r","i","n","g"," ","c","i","v","i","l"," ","r","i","g","h","t","s"," ","l","e","a","d","e","r"," ","M","a","r","t","i","n"," ","L","u","t","h","e","r"," ","K","i","n","g"," ","J","r",".">>,
                 <<"p","u","b","l","i","c">>),
    StaticRecord(<<"2","0","2","5","-","0","2","-","1","7">>,
                 <<"P","r","e","s","i","d","e","n","t","s","'"," ","D","a","y">>,
                 <<"F","e","d","e","r","a","l"," ","h","o","l","i","d","a","y"," ","h","o","n","o","r","i","n","g"," ","a","l","l"," ","U",".","S","."," ","p","r","e","s","i","d","e","n","t","s">>,
                 <<"p","u","b","l","i","c">>),
    StaticRecord(<<"2","0","2","5","-","0","5","-","2","6">>,
                 <<"M","e","m","o","r","i","a","l"," ","D","a","y">>,
                 <<"F","e","d","e","r","a","l"," ","h","o","l","i","d","a","y"," ","h","o","n","o","r","i","n","g"," ","m","i","l","i","t","a","r","y"," ","p","e","r","s","o","n","n","e","l"," ","w","h","o"," ","d","i","e","d"," ","i","n"," ","s","e","r","v","i","c","e">>,
                 <<"p","u","b","l","i","c">>),
    StaticRecord(<<"2","0","2","5","-","0","7","-","0","4">>,
                 <<"I","n","d","e","p","e","n","d","e","n","c","e"," ","D","a","y">>,
                 <<"C","e","l","e","b","r","a","t","i","o","n"," ","o","f"," ","A","m","e","r","i","c","a","n"," ","i","n","d","e","p","e","n","d","e","n","c","e"," ","f","r","o","m"," ","G","r","e","a","t"," ","B","r","i","t","a","i","n">>,
                 <<"p","u","b","l","i","c">>),
    StaticRecord(<<"2","0","2","5","-","0","9","-","0","1">>,
                 <<"L","a","b","o","r"," ","D","a","y">>,
                 <<"F","e","d","e","r","a","l"," ","h","o","l","i","d","a","y"," ","c","e","l","e","b","r","a","t","i","n","g"," ","t","h","e"," ","c","o","n","t","r","i","b","u","t","i","o","n","s"," ","o","f"," ","w","o","r","k","e","r","s">>,
                 <<"p","u","b","l","i","c">>),
    StaticRecord(<<"2","0","2","5","-","1","0","-","1","3">>,
                 <<"C","o","l","u","m","b","u","s"," ","D","a","y">>,
                 <<"F","e","d","e","r","a","l"," ","h","o","l","i","d","a","y"," ","c","o","m","m","e","m","o","r","a","t","i","n","g"," ","C","h","r","i","s","t","o","p","h","e","r"," ","C","o","l","u","m","b","u","s">>,
                 <<"p","u","b","l","i","c">>),
    StaticRecord(<<"2","0","2","5","-","1","1","-","1","1">>,
                 <<"V","e","t","e","r","a","n","s"," ","D","a","y">>,
                 <<"F","e","d","e","r","a","l"," ","h","o","l","i","d","a","y"," ","h","o","n","o","r","i","n","g"," ","m","i","l","i","t","a","r","y"," ","v","e","t","e","r","a","n","s">>,
                 <<"p","u","b","l","i","c">>),
    StaticRecord(<<"2","0","2","5","-","1","1","-","2","7">>,
                 <<"T","h","a","n","k","s","g","i","v","i","n","g"," ","D","a","y">>,
                 <<"F","e","d","e","r","a","l"," ","h","o","l","i","d","a","y"," ","f","o","r"," ","g","i","v","i","n","g"," ","t","h","a","n","k","s"," ","a","n","d"," ","s","h","a","r","i","n","g"," ","m","e","a","l","s"," ","w","i","t","h"," ","f","a","m","i","l","y">>,
                 <<"p","u","b","l","i","c">>),
    StaticRecord(<<"2","0","2","5","-","1","2","-","2","5">>,
                 <<"C","h","r","i","s","t","m","a","s"," ","D","a","y">>,
                 <<"C","h","r","i","s","t","i","a","n"," ","h","o","l","i","d","a","y"," ","c","e","l","e","b","r","a","t","i","n","g"," ","t","h","e"," ","b","i","r","t","h"," ","o","f"," ","J","e","s","u","s"," ","C","h","r","i","s","t">>,
                 <<"p","u","b","l","i","c">>)
  >>

Table_GB_2025 ==
  <<
    StaticRecord(<<"2","0","2","5","-","0","1","-","0","1">>,
                 <<"N","e","w"," ","Y","e","a","r","'","s"," ","D","a","y">>,
                 <<"T","h","e"," ","f","i","r","s","t"," ","d","a","y"," ","o","f"," ","t","h","e"," ","G","r","e","g","o","r","i","a","n"," ","c","a","l","e","n","d","a","r"," ","y","e","a","r">>,
                 <<"p","u","b","l","i","c">>),
    StaticRecord(<<"2","0","2","5","-","0","4","-","1","8">>,
                 <<"G","o","o","d"," ","F","r","i","d","a","y">>,
                 <<"C","h","r","i","s","t","i","a","n"," ","h","o","l","i","d","a","y"," ","c","o","m","m","e","m","o","r","a","t","i","n","g"," ","t","h","e"," ","c","r","u","c","i","f","i","x","i","o","n"," ","o","f"," ","J","e","s","u","s">>,
                 <<"p","u","b","l","i","c">>),
    StaticRecord(<<"2","0","2","5","-","0","4","-","2","1">>,
                 <<"E","a","s","t","e","r"," ","M","o","n","d","a","y">>,
                 <<"C","h","r","i","s","t","i","a","n"," ","h","o","l","i","d","a","y"," ","c","e","l","e","b","r","a","t","i","n","g"," ","t","h","e"," ","r","e","s","u","r","r","e","c","t","i","o","n"," ","o","f"," ","J","e","s","u","s">>,
                 <<"p","u","b","l","i","c">>),
    StaticRecord(<<"2","0","2","5","-","0","5","-","0","5">>,
                 <<"E","a","r","l","y"," ","M","a","y"," ","B","a","n","k"," ","H","o","l","i","d","a","y">>,
                 <<"S","p","r","i","n","g"," ","b","a","n","k"," ","h","o","l","i","d","a","y"," ","i","n"," ","t","h","e"," ","U","K">>,
                 <<"b","a","n","k">>),
    StaticRecord(<<"2","0","2","5","-","0","5","-","2","6">>,
                 <<"S","p","r","i","n","g"," ","B","a","n","k"," ","H","o","l","i","d","a","y">>,
                 <<"L","a","t","e"," ","s","p","r","i","n","g"," ","b","a","n","k"," ","h","o","l","i","d","a","y"," ","i","n"," ","t","h","e"," ","U","K">>,
                 <<"b","a","n","k">>),
    StaticRecord(<<"2","0","2","5","-","0","8","-","2","5">>,
                 <<"S","u","m","m","e","r"," ","B","a","n","k"," ","H","o","l","i","d","a","y">>,
                 <<"S","u","m","m","e","r"," ","b","a","n","k"," ","h","o","l","i","d","a","y"," ","i","n"," ","E","n","g","l","a","n","d",","," ","W","a","l","e","s",","," ","a","n","d"," ","N","o","r","t","h","e","r","n"," ","I","r","e","l","a","n","d">>,
                 <<"b","a","n","k">>),
    StaticRecord(<<"2","0","2","5","-","1","2","-","2","5">>,
                 <<"C","h","r","i","s","t","m","a","s"," ","D","a","y">>,
                 <<"C","h","r","i","s","t","i","a","n"," ","h","o","l","i","d","a","y"," ","c","e","l","e","b","r","a","t","i","n","g"," ","t","h","e"," ","b","i","r","t","h"," ","o","f"," ","J","e","s","u","s"," ","C","h","r","i","s","t">>,
                 <<"p","u","b","l","i","c">>),
    StaticRecord(<<"2","0","2","5","-","1","2","-","2","6">>,
                 <<"B","o","x","i","n","g"," ","D","a","y">>,
                 <<"T","r","a","d","i","t","i","o","n","a","l"," ","h","o","l","i","d","a","y"," ","f","o","l","l","o","w","i","n","g"," ","C","h","r","i","s","t","m","a","s"," ","D","a","y">>,
                 <<"p","u","b","l","i","c">>)
  >>

Table_CA_2025 ==
  <<
    StaticRecord(<<"2","0","2","5","-","0","1","-","0","1">>,
                 <<"N","e","w"," ","Y","e","a","r","'","s"," ","D","a","y">>,
                 <<"T","h","e"," ","f","i","r","s","t"," ","d","a","y"," ","o","f"," ","t","h","e"," ","G","r","e","g","o","r","i","a","n"," ","c","a","l","e","n","d","a","r"," ","y","e","a","r">>,
                 <<"p","u","b","l","i","c">>),
    StaticRecord(<<"2","0","2","5","-","0","4","-","1","8">>,
                 <<"G","o","o","d"," ","F","r","i","d","a","y">>,
                 <<"C","h","r","i","s","t","i","a","n"," ","h","o","l","i","d","a","y"," ","c","o","m","m","e","m","o","r","a","t","i","n","g"," ","t","h","e"," ","c","r","u","c","i","f","i","x","i","o","n"," ","o","f"," ","J","e","s","u","s">>,
                 <<"p","u","b","l","i","c">>),
    StaticRecord(<<"2","0","2","5","-","0","4","-","2","1">>,
                 <<"E","a","s","t","e","r"," ","M","o","n","d","a","y">>,
                 <<"C","h","r","i","s","t","i","a","n"," ","h","o","l","i","d","a","y"," ","c","e","l","e","b","r","a","t","i","n","g"," ","t","h","e"," ","r","e","s","u","r","r","e","c","t","i","o","n"," ","o","f"," ","J","e","s","u","s">>,
                 <<"p","u","b","l","i","c">>),
    StaticRecord(<<"2","0","2","5","-","0","5","-","1","9">>,
                 <<"V","i","c","t","o","r","i","a"," ","D","a","y">>,
                 <<"C","a","n","a","d","i","a","n"," ","f","e","d","e","r","a","l"," ","h","o","l","i","d","a","y"," ","h","o","n","o","r","i","n","g"," ","Q","u","e","e","n"," ","V","i","c","t","o","r","i","a">>,
                 <<"p","u","b","l","i","c">>),
    StaticRecord(<<"2","0","2","5","-","0","7","-","0","1">>,
                 <<"C","a","n","a","d","a"," ","D","a","y">>,
                 <<"N","a","t","i","o","n","a","l"," ","h","o","l","i","d","a","y"," ","c","e","l","e","b","r","a","t","i","n","g"," ","C","a","n","a","d","i","a","n"," ","C","o","n","f","e","d","e","r","a","t","i","o","n">>,
                 <<"p","u","b","l","i","c">>),
    StaticRecord(<<"2","0","2","5","-","0","9","-","0","1">>,
                 <<"L","a","b","o","u","r"," ","D","a","y">>,
                 <<"F","e","d","e","r","a","l"," ","h","o","l","i","d","a","y"," ","c","e","l","e","b","r","a","t","i","n","g"," ","t","h","e"," ","c","o","n","t","r","i","b","u","t","i","o","n","s"," ","o","f"," ","w","o","r","k","e","r","s">>,
                 <<"p","u","b","l","i","c">>),
    StaticRecord(<<"2","0","2","5","-","1","0","-","1","3">>,
                 <<"T","h","a","n","k","s","g","i","v","i","n","g">>,
                 <<"C","a","n","a","d","i","a","n"," ","h","o","l","i","d","a","y"," ","f","o","r"," ","g","i","v","i","n","g"," ","t","h","a","n","k","s">>,
                 <<"p","u","b","l","i","c">>),
    StaticRecord(<<"2","0","2","5","-","1","1","-","1","1">>,
                 <<"R","e","m","e","m","b","r","a","n","c","e"," ","D","a","y">>,
                 <<"M","e","m","o","r","i","a","l"," ","d","a","y"," ","f","o","r"," ","m","i","l","i","t","a","r","y"," ","p","e","r","s","o","n","n","e","l"," ","w","h","o"," ","d","i","e","d"," ","i","n"," ","s","e","r","v","i","c","e">>,
                 <<"p","u","b","l","i","c">>),
    StaticRecord(<<"2","0","2","5","-","1","2","-","2","5">>,
                 <<"C","h","r","i","s","t","m","a","s"," ","D","a","y">>,
                 <<"C","h","r","i","s","t","i","a","n"," ","h","o","l","i","d","a","y"," ","c","e","l","e","b","r","a","t","i","n","g"," ","t","h","e"," ","b","i","r","t","h"," ","o","f"," ","J","e","s","u","s"," ","C","h","r","i","s","t">>,
                 <<"p","u","b","l","i","c">>),
    StaticRecord(<<"2","0","2","5","-","1","2","-","2","6">>,
                 <<"B","o","x","i","n","g"," ","D","a","y">>,
                 <<"T","r","a","d","i","t","i","o","n","a","l"," ","h","o","l","i","d","a","y"," ","f","o","l","l","o","w","i","n","g"," ","C","h","r","i","s","t","m","a","s"," ","D","a","y">>,
                 <<"p","u","b","l","i","c">>)
  >>

Table_DE_2025 ==
  <<
    StaticRecord(<<"2","0","2","5","-","0","1","-","0","1">>,
                 <<"N","e","w"," ","Y","e","a","r","'","s"," ","D","a","y">>,
                 <<"T","h","e"," ","f","i","r","s","t"," ","d","a","y"," ","o","f"," ","t","h","e"," ","G","r","e","g","o","r","i","a","n"," ","c","a","l","e","n","d","a","r"," ","y","e","a","r">>,
                 <<"p","u","b","l","i","c">>),
    StaticRecord(<<"2","0","2","5","-","0","5","-","0","1">>,
                 <<"L","a","b","o","u","r"," ","D","a","y">>,
                 <<"G","e","r","m","a","n"," ","h","o","l","i","d","a","y"," ","c","e","l","e","b","r","a","t","i","n","g"," ","w","o","r","k","e","r","s">>,
                 <<"p","u","b","l","i","c">>),
    StaticRecord(<<"2","0","2","5","-","1","0","-","0","3">>,
                 <<"G","e","r","m","a","n"," ","U","n","i","t","y"," ","D","a","y">>,
                 <<"N","a","t","i","o","n","a","l"," ","h","o","l","i","d","a","y"," ","c","o","m","m","e","m","o","r","a","t","i","n","g"," ","G","e","r","m","a","n"," ","r","e","u","n","i","f","i","c","a","t","i","o","n">>,
                 <<"p","u","b","l","i","c">>),
    StaticRecord(<<"2","0","2","5","-","1","2","-","2","5">>,
                 <<"C","h","r","i","s","t","m","a","s"," ","D","a","y">>,
                 <<"C","h","r","i","s","t","i","a","n"," ","h","o","l","i","d","a","y"," ","c","e","l","e","b","r","a","t","i","n","g"," ","t","h","e"," ","b","i","r","t","h"," ","o","f"," ","J","e","s","u","s"," ","C","h","r","i","s","t">>,
                 <<"p","u","b","l","i","c">>),
    StaticRecord(<<"2","0","2","5","-","1","2","-","2","6">>,
                 <<"B","o","x","i","n","g"," ","D","a","y">>,
                 <<"S","e","c","o","n","d"," ","d","a","y"," ","o","f"," ","C","h","r","i","s","t","m","a","s">>,
                 <<"p","u","b","l","i","c">>)
  >>

Table_FR_2025 ==
  <<
    StaticRecord(<<"2","0","2","5","-","0","1","-","0","1">>,
                 <<"N","e","w"," ","Y","e","a","r","'","s"," ","D","a","y">>,
                 <<"T","h","e"," ","f","i","r","s","t"," ","d","a","y"," ","o","f"," ","t","h","e"," ","G","r","e","g","o","r","i","a","n"," ","c","a","l","e","n","d","a","r"," ","y","e","a","r">>,
                 <<"p","u","b","l","i","c">>),
    StaticRecord(<<"2","0","2","5","-","0","5","-","0","1">>,
                 <<"L","a","b","o","u","r"," ","D","a","y">>,
                 <<"F","r","e","n","c","h"," ","h","o","l","i","d","a","y"," ","c","e","l","e","b","r","a","t","i","n","g"," ","w","o","r","k","e","r","s">>,
                 <<"p","u","b","l","i","c">>),
    StaticRecord(<<"2","0","2","5","-","0","5","-","0","8">>,
                 <<"V","i","c","t","o","r","y"," ","i","n"," ","E","u","r","o","p","e"," ","D","a","y">>,
                 <<"C","o","m","m","e","m","o","r","a","t","e","s"," ","t","h","e"," ","e","n","d"," ","o","f"," ","W","o","r","l","d"," ","W","a","r"," ","I","I"," ","i","n"," ","E","u","r","o","p","e">>,
                 <<"p","u","b","l","i","c">>),
    StaticRecord(<<"2","0","2","5","-","0","7","-","1","4">>,
                 <<"B","a","s","t","i","l","l","e"," ","D","a","y">>,
                 <<"F","r","e","n","c","h"," ","N","a","t","i","o","n","a","l"," ","D","a","y">>,
                 <<"p","u","b","l","i","c">>),
    StaticRecord(<<"2","0","2","5","-","0","8","-","1","5">>,
                 <<"A","s","s","u","m","p","t","i","o","n"," ","D","a","y">>,
                 <<"C","h","r","i","s","t","i","a","n"," ","h","o","l","i","d","a","y">>,
                 <<"p","u","b","l","i","c">>),
    StaticRecord(<<"2","0","2","5","-","1","1","-","0","1">>,
                 <<"A","l","l"," ","S","a","i","n","t","s"," ","D","a","y">>,
                 <<"C","h","r","i","s","t","i","a","n"," ","h","o","l","i","d","a","y"," ","h","o","n","o","r","i","n","g"," ","a","l","l"," ","s","a","i","n","t","s">>,
                 <<"p","u","b","l","i","c">>),
    StaticRecord(<<"2","0","2","5","-","1","1","-","1","1">>,
                 <<"A","r","m","i","s","t","i","c","e"," ","D","a","y">>,
                 <<"C","o","m","m","e","m","o","r","a","t","e","s"," ","t","h","e"," ","e","n","d"," ","o","f"," ","W","o","r","l","d"," ","W","a","r"," ","I">>,
                 <<"p","u","b","l","i","c">>),
    StaticRecord(<<"2","0","2","5","-","1","2","-","2","5">>,
                 <<"C","h","r","i","s","t","m","a","s"," ","D","a","y">>,
                 <<"C","h","r","i","s","t","i","a","n"," ","h","o","l","i","d","a","y"," ","c","e","l","e","b","r","a","t","i","n","g"," ","t","h","e"," ","b","i","r","t","h"," ","o","f"," ","J","e","s","u","s"," ","C","h","r","i","s","t">>,
                 <<"p","u","b","l","i","c">>)
  >>

\* The keys of enhancedHolidays, and the table as a function of its keys.
TableKeys == {"US-2025", "GB-2025", "CA-2025", "DE-2025", "FR-2025"}

InitialTable ==
  [key \in TableKeys |->
     CASE key = "US-2025" -> Table_US_2025
       [] key = "GB-2025" -> Table_GB_2025
       [] key = "CA-2025" -> Table_CA_2025
       [] key = "DE-2025" -> Table_DE_2025
       [] key = "FR-2025" -> Table_FR_2025]

-----------------------------------------------------------------------------
(* The ICS encoder. *)

\* generateUID throws a TypeError when date or name is not a string.
generateUIDThrows(holiday) == ~IsString(holiday.date) \/ ~IsString(holiday.name)

generateUID(holiday, country, year) ==
  LET dateStr == ReplaceAll(holiday.date.s, "-", <<>>)
      nameHash == toLowerCase(SelectSeq(holiday.name.s, IsAlnum))
  IN  dateStr \o <<"-">> \o nameHash \o <<"-">> \o country \o <<"-">>
        \o NumberToString(year) \o <<"@holiday-calendar-api.com">>

formatDate(dateStr) == ReplaceAll(dateStr, "-", <<>>)

\* Date.prototype.toISOString: YYYY-MM-DDTHH:mm:ss.sssZ.
Pad(n, width) ==
  LET d == NumberToString(n)
  IN  [i \in 1..(width - Len(d)) |-> "0"] \o d

toISOString(date) ==
  Pad(date.year, 4) \o <<"-">> \o Pad(date.month, 2) \o <<"-">> \o Pad(date.day, 2)
    \o <<"T">> \o Pad(date.hours, 2) \o <<":">> \o Pad(date.minutes, 2)
    \o <<":">> \o Pad(date.seconds, 2) \o <<".">> \o Pad(date.ms, 3) \o <<"Z">>

\* text.replace(/\.\d{3}/, ''): the first dot followed by three digits.
RemoveFirstMillis(t) ==
  LET dots == {i \in 1..(Len(t) - 3) :
                 /\ t[i] = "."
                 /\ \A j \in 1..3 : t[i + j] \in Range(Digits)}
  IN  IF dots = {} THEN t
      ELSE LET i == CHOOSE h \in dots : \A g \in dots : h <= g
           IN  SubSeq(t, 1, i - 1) \o SubSeq(t, i + 4, Len(t))

\* formatDateTimeUTC leaving the milliseconds in.
formatDateTimeUTCWithMillis(date) ==
  SelectSeq(toISOString(date), LAMBDA c : c \notin {"-", ":"})

formatDateTimeUTC(date) ==
  RemoveFirstMillis(SelectSeq(toISOString(date), LAMBDA c : c \notin {"-", ":"}))

\* escapeText doing the replacement of the backslash last.
escapeTextBackslashLast(text) ==
  LET s1 == ReplaceAll(text, ";", <<BACKSLASH, ";">>)
      s2 == ReplaceAll(s1, ",", <<BACKSLASH, ",">>)
      s3 == ReplaceAll(s2, LF, <<BACKSLASH, "n">>)
      s4 == ReplaceAll(s3, CR, <<>>)
  IN  ReplaceAll(s4, BACKSLASH, <<BACKSLASH, BACKSLASH>>)

\* escapeText returning the text as it is.
escapeTextUnescaped(text) == [i \in DOMAIN text |-> text[i]]

escapeText(text) ==
  LET s1 == ReplaceAll(text, BACKSLASH, <<BACKSLASH, BACKSLASH>>)
      s2 == ReplaceAll(s1, ";", <<BACKSLASH, ";">>)
      s3 == ReplaceAll(s2, ",", <<BACKSLASH, ",">>)
      s4 == ReplaceAll(s3, LF, <<BACKSLASH, "n">>)
  IN  ReplaceAll(s4, CR, <<>>)

\* Array.prototype.join.
RECURSIVE Join(_, _)
Join(lines, sep) ==
  IF lines = <<>> THEN <<>>
  ELSE IF Len(lines) = 1 THEN lines[1]
  ELSE LET m == Len(lines) \div 2
       IN  Join(SubSeq(lines, 1, m), sep) \o sep
             \o Join(SubSeq(lines, m + 1, Len(lines)), sep)

\* The lines one holiday adds to icsContent.
EventLines(holiday, country, year, timestamp) ==
  LET uid == generateUID(holiday, country, year)
      dtstart == formatDate(holiday.date.s)
      category == toUpperCase(holiday.type.s)
  IN  << <<"BEGIN:VEVENT">>,
         <<"UID:">> \o uid,
         <<"DTSTAMP:">> \o timestamp,
         <<"DTSTART;VALUE=DATE:">> \o dtstart,
         <<"SUMMARY:">> \o escapeText(holiday.name.s),
         <<"STATUS:CONFIRMED">>,
         <<"TRANSP:TRANSPARENT">>,
         <<"CLASS:PUBLIC">>,
         <<"PRIORITY:5">> >>
      \o (IF Truthy(holiday.description)
          THEN << <<"DESCRIPTION:">> \o escapeText(holiday.description.s) >>
          ELSE <<>>)
      \o << <<"CATEGORIES:">> \o category \o <<",HOLIDAY">> >>
      \o (IF Truthy(holiday.observed) /\ StrictNotEqual(holiday.observed, holiday.date)
          THEN << <<"X-OBSERVED-DATE:">> \o formatDate(holiday.observed.s) >>
          ELSE <<>>)
      \o << <<"END:VEVENT">> >>

\* The TypeErrors of one pass of the forEach body: a method of String called
\* on a value that is not a string.
EventThrows(holiday) ==
  \/ generateUIDThrows(holiday)
  \/ Truthy(holiday.description) /\ ~IsString(holiday.description)
  \/ ~IsString(holiday.type)
  \/ /\ Truthy(holiday.observed)
     /\ StrictNotEqual(holiday.observed, holiday.date)
     /\ ~IsString(holiday.observed)

generateICSThrows(holidays) == \E i \in DOMAIN holidays : EventThrows(holidays[i])

\* HeaderLines leaving the year out of the calendar name.
HeaderLinesNameWithoutYear(options) ==
  LET calendarName ==
        IF Truthy(options.region)
        THEN options.country \o <<"-">> \o options.region.s \o <<" Public Holidays">>
        ELSE options.country \o <<" Public Holidays">>
      prodId == <<"-//Holiday Calendar API//Holiday Calendar ">>
                  \o NumberToString(options.year) \o <<"//EN">>
  IN  << <<"BEGIN:VCALENDAR">>,
         <<"VERSION:2.0">>,
         <<"PRODID:">> \o prodId,
         <<"CALSCALE:GREGORIAN">>,
         <<"METHOD:PUBLISH">>,
         <<"X-WR-CALNAME:">> \o calendarName,
         <<"X-WR-CALDESC:Public holidays calendar generated by Holiday Calendar API">>,
         <<"X-WR-TIMEZONE:UTC">>,
         <<"X-PUBLISHED-TTL:PT1H">>,
         <<"X-ORIGINAL-URL:https://rapidapi.com/holiday-calendar-api">> >>

HeaderLines(options) ==
  LET calendarName ==
        IF Truthy(options.region)
        THEN options.country \o <<"-">> \o options.region.s
               \o <<" Public Holidays ">> \o NumberToString(options.year)
        ELSE options.country \o <<" Public Holidays ">> \o NumberToString(options.year)
      prodId == <<"-//Holiday Calendar API//Holiday Calendar ">>
                  \o NumberToString(options.year) \o <<"//EN">>
  IN  << <<"BEGIN:VCALENDAR">>,
         <<"VERSION:2.0">>,
         <<"PRODID:">> \o prodId,
         <<"CALSCALE:GREGORIAN">>,
         <<"METHOD:PUBLISH">>,
         <<"X-WR-CALNAME:">> \o calendarName,
         <<"X-WR-CALDESC:Public holidays calendar generated by Holiday Calendar API">>,
         <<"X-WR-TIMEZONE:UTC">>,
         <<"X-PUBLISHED-TTL:PT1H">>,
         <<"X-ORIGINAL-URL:https://rapidapi.com/holiday-calendar-api">> >>

\* generateICS emitting the events last record first.
generateICSReversed(holidays, options, now) ==
  LET timestamp == formatDateTimeUTC(now)
      n == Len(holidays)
      icsContent ==
        HeaderLines(options)
          \o Flatten([i \in DOMAIN holidays |->
                        EventLines(holidays[n + 1 - i], options.country, options.year,
                                   timestamp)])
          \o << <<"END:VCALENDAR">> >>
  IN  Join(icsContent, <<CR, LF>>)

\* generateICS putting the timestamp into every UID.
generateICSStampedUID(holidays, options, now) ==
  LET timestamp == formatDateTimeUTC(now)
      icsContent ==
        HeaderLines(options)
          \o Flatten([i \in DOMAIN holidays |->
                        EventLines(holidays[i], options.country \o timestamp,
                                   options.year, timestamp)])
          \o << <<"END:VCALENDAR">> >>
  IN  Join(icsContent, <<CR, LF>>)

\* generateICS(holidays, options), with the instant new Date() returns made a
\* parameter.  Defined where generateICSThrows(holidays) is false.
generateICS(holidays, options, now) ==
  LET timestamp == formatDateTimeUTC(now)
      icsContent ==
        HeaderLines(options)
          \o Flatten([i \in DOMAIN holidays |->
                        EventLines(holidays[i], options.country, options.year, timestamp)])
          \o << <<"END:VCALENDAR">> >>
  IN  Join(icsContent, <<CR, LF>>)

-----------------------------------------------------------------------------
(* Request validation. *)

\* parseInt(text) without a radix: leading white space and a sign are
\* skipped, a 0x prefix selects base 16, and the longest prefix of digits is
\* read; NaN when there is none.
Whitespace == {" ", "\t", LF, CR}

HexLetters == <<"a","b","c","d","e","f">>

DigitValue(c) ==
  IF \E i \in DOMAIN Digits : Digits[i] = c
  THEN (CHOOSE i \in DOMAIN Digits : Digits[i] = c) - 1
  ELSE LET l == LowerChar(c)
       IN  IF \E i \in DOMAIN HexLetters : HexLetters[i] = l
           THEN 9 + (CHOOSE i \in DOMAIN HexLetters : HexLetters[i] = l)
           ELSE 99

RECURSIVE DigitsPrefix(_, _)
DigitsPrefix(t, radix) ==
  IF t = <<>> \/ DigitValue(Head(t)) >= radix THEN <<>>
  ELSE <<Head(t)>> \o DigitsPrefix(Tail(t), radix)

RECURSIVE DigitsToNumber(_, _)
DigitsToNumber(ds, radix) ==
  IF ds = <<>> THEN 0
  ELSE DigitsToNumber(SubSeq(ds, 1, Len(ds) - 1), radix) * radix
         + DigitValue(ds[Len(ds)])

RECURSIVE DropWhitespace(_)
DropWhitespace(t) ==
  IF t # <<>> /\ Head(t) \in Whitespace THEN DropWhitespace(Tail(t)) ELSE t

NaN == [nan |-> TRUE, n |-> 0]

parseInt(text) ==
  LET s0 == DropWhitespace(text)
      negative == s0 # <<>> /\ Head(s0) = "-"
      s1 == IF s0 # <<>> /\ Head(s0) \in {"+", "-"} THEN Tail(s0) ELSE s0
      hex == Len(s1) >= 2 /\ s1[1] = "0" /\ s1[2] \in {"x", "X"}
      radix == IF hex THEN 16 ELSE 10
      s2 == IF hex THEN SubSeq(s1, 3, Len(s1)) ELSE s1
      ds == DigitsPrefix(s2, radix)
      magnitude == DigitsToNumber(ds, radix)
  IN  IF ds = <<>> THEN NaN
      ELSE [nan |-> FALSE, n |-> IF negative THEN 0 - magnitude ELSE magnitude]

MinYear == 2000
MaxYear == 2030

NoValidatedQuery == [country |-> <<>>, year |-> 0, region |-> Undefined]

ErrorResponse(status, code) ==
  [status |-> status, code |-> code, headers |-> <<>>, body |-> <<>>]

\* validateHolidayRequest without the check against VALID_COUNTRIES.
validateWithoutCountryList(query) ==
  LET yearInt == parseInt(query.year.s)
  IN  IF ~Truthy(query.country)
      THEN [next |-> FALSE, res |-> ErrorResponse(400, "MISSING_COUNTRY"),
            validatedQuery |-> NoValidatedQuery]
      ELSE IF ~Truthy(query.year)
      THEN [next |-> FALSE, res |-> ErrorResponse(400, "MISSING_YEAR"),
            validatedQuery |-> NoValidatedQuery]
      ELSE IF yearInt.nan \/ yearInt.n < MinYear \/ yearInt.n > MaxYear
      THEN [next |-> FALSE, res |-> ErrorResponse(400, "INVALID_YEAR"),
            validatedQuery |-> NoValidatedQuery]
      ELSE [next |-> TRUE, res |-> ErrorResponse(0, ""),
            validatedQuery |->
              [country |-> toUpperCase(query.country.s),
               year |-> yearInt.n,
               region |-> IF query.region.k = "undefined" THEN Undefined
                          ELSE JSString(toUpperCase(query.region.s))]]

\* validateHolidayRequest answering an absent year with INVALID_YEAR.
validateMissingYearAsInvalid(query) ==
  LET yearInt == parseInt(query.year.s)
      reject(code) == [next |-> FALSE, res |-> ErrorResponse(400, code),
                       validatedQuery |-> NoValidatedQuery]
  IN  IF ~Truthy(query.country) THEN reject("MISSING_COUNTRY")
      ELSE IF Str(toUpperCase(query.country.s)) \notin VALID_COUNTRIES
           THEN reject("INVALID_COUNTRY")
      ELSE IF ~Truthy(query.year) \/ yearInt.nan \/ yearInt.n < MinYear
                \/ yearInt.n > MaxYear
           THEN reject("INVALID_YEAR")
      ELSE [next |-> TRUE, res |-> ErrorResponse(0, ""),
            validatedQuery |->
              [country |-> toUpperCase(query.country.s),
               year |-> yearInt.n,
               region |-> IF query.region.k = "undefined" THEN Undefined
                          ELSE JSString(toUpperCase(query.region.s))]]

\* validateHolidayRequest(req, res, next): the response it sends, or the
\* validatedQuery it stores before calling next().
validateHolidayRequest(query) ==
  LET country == query.country
      year == query.year
      region == query.region
      yearInt == parseInt(year.s)
      reject(code) == [next |-> FALSE, res |-> ErrorResponse(400, code),
                       validatedQuery |-> NoValidatedQuery]
  IN  IF ~Truthy(country) THEN reject("MISSING_COUNTRY")
      ELSE IF Str(toUpperCase(country.s)) \notin VALID_COUNTRIES
           THEN reject("INVALID_COUNTRY")
      ELSE IF ~Truthy(year) THEN reject("MISSING_YEAR")
      ELSE IF yearInt.nan \/ yearInt.n < MinYear \/ yearInt.n > MaxYear
           THEN reject("INVALID_YEAR")
      ELSE [next |-> TRUE, res |-> ErrorResponse(0, ""),
            validatedQuery |->
              [country |-> toUpperCase(country.s),
               year |-> yearInt.n,
               region |-> IF region.k = "undefined" THEN Undefined
                          ELSE JSString(toUpperCase(region.s))]]

-----------------------------------------------------------------------------
(* Rate limiting by subscription tier. *)

\* rateLimitBySubscription comparing the header as it is written.
rateLimitBySubscriptionCaseSensitive(headers) ==
  LET subscription == IF Truthy(headers.subscription)
                      THEN Str(headers.subscription.s)
                      ELSE "basic"
  IN  CASE subscription = "enterprise" -> "enterprise"
        [] subscription = "pro" -> "pro"
        [] OTHER -> "basic"

\* rateLimitBySubscription: the limiter the request is handed to.
rateLimitBySubscription(headers) ==
  LET subscription == IF Truthy(headers.subscription)
                      THEN headers.subscription.s
                      ELSE <<"b","a","s","i","c">>
      lowered == Str(toLowerCase(subscription))
  IN  CASE lowered = "enterprise" -> "enterprise"
        [] lowered = "pro" -> "pro"
        [] OTHER -> "basic"

\* The three limiters and the max each was created with.
Limiters == {"basic", "pro", "enterprise"}
BasicMax == 10
ProMax == 100
EnterpriseMax == 1000
LimiterMax(l) ==
  CASE l = "basic" -> BasicMax
    [] l = "pro" -> ProMax
    [] l = "enterprise" -> EnterpriseMax

\* The store of a limiter at the start of a window: no hit counted.
NoHits == [l \in Limiters |-> 0]

-----------------------------------------------------------------------------
(* The holiday resolver. *)

SourceCount == 3

\* The apis array of fetchHolidays.
apis(country, year) ==
  << <<"https://date.nager.at/api/v3/PublicHolidays/">> \o NumberToString(year)
       \o <<"/">> \o country,
     <<"https://holidayapi.com/v1/holidays?country=">> \o country
       \o <<"&year=">> \o NumberToString(year),
     <<"https://calendarific.com/api/v2/holidays?country=">> \o country
       \o <<"&year=">> \o NumberToString(year) >>

\* What axios.get(apiUrl, { timeout: 3000 }) ends with: it rejects ("error":
\* no connection or a status outside 2xx; "timeout": no answer within the
\* timeout) or it resolves with response.data being falsy ("nodata"), an
\* object that is no array ("object"), or an array of items ("array").
NoResponse == [kind |-> "none", items |-> <<>>]

\* An item of a source's array: null, or an object with the properties the
\* mapping reads.  types is "Public" (an array that includes 'Public'),
\* "Other" (an array that does not), "undefined", or "number" (a value
\* without an includes method).
Item(isNull, date, name, localName, types) ==
  [isNull |-> isNull, date |-> date, name |-> name, localName |-> localName,
   types |-> types]

\* holiday => ({ date, name, description, type }) throws a TypeError on a
\* null item and on types?.includes being no function.
MapItemThrows(holiday) == holiday.isNull \/ holiday.types = "number"

\* MapItem taking the localized name for the description whatever the name.
MapItemLocalNameAlways(holiday) ==
  [date |-> holiday.date,
   name |-> holiday.name,
   description |-> holiday.localName,
   type |-> IF holiday.types = "Public"
            THEN JSString(<<"p","u","b","l","i","c">>)
            ELSE JSString(<<"b","a","n","k">>),
   observed |-> Undefined]

MapItem(holiday) ==
  [date |-> holiday.date,
   name |-> holiday.name,
   description |-> IF StrictNotEqual(holiday.localName, holiday.name)
                   THEN holiday.localName ELSE Undefined,
   type |-> IF holiday.types = "Public"
            THEN JSString(<<"p","u","b","l","i","c">>)
            ELSE JSString(<<"b","a","n","k">>),
   observed |-> Undefined]

\* The body of the inner try block for one source: "throw", "next" (the
\* if fails and the loop goes on) or "return" with the mapped records.
TryBody(response) ==
  CASE response.kind \in {"error", "timeout"} ->
         [kind |-> "throw", value |-> <<>>]
    [] response.kind = "array" ->
         IF \E i \in DOMAIN response.items : MapItemThrows(response.items[i])
         THEN [kind |-> "throw", value |-> <<>>]
         ELSE [kind |-> "return",
               value |-> [i \in DOMAIN response.items |-> MapItem(response.items[i])]]
    [] OTHER -> [kind |-> "next", value |-> <<>>]

\* The inner try/catch: an exception is logged and the loop continues.
InnerCatch(r) == IF r.kind = "throw" THEN [kind |-> "next", value |-> <<>>] ELSE r

\* The outer try/catch: an exception leaving the loop is logged and control
\* falls through to the static table.
OuterCatch(r) == IF r.kind = "throw" THEN [kind |-> "fallback", value |-> <<>>] ELSE r

\* Attempt without its try blocks: an exception leaves fetchHolidays.
AttemptUnguarded(response) == TryBody(response)

\* Attempt with the inner catch missing: the first exception ends the loop.
AttemptOuterOnly(response) == OuterCatch(TryBody(response))

\* One pass of the for loop inside both try blocks.
Attempt(response) == OuterCatch(InnerCatch(TryBody(response)))

\* StaticLookup with the dash of the key left out.
StaticLookupNoDash(table, country, year) ==
  LET key == Str(country \o NumberToString(year))
  IN  IF key \in DOMAIN table THEN table[key] ELSE <<>>

\* enhancedHolidays[key] || []
StaticLookup(table, country, year) ==
  LET key == Str(country \o <<"-">> \o NumberToString(year))
  IN  IF key \in DOMAIN table THEN table[key] ELSE <<>>

-----------------------------------------------------------------------------
(* The inputs the model draws from. *)

T_us == <<"u","s">>
T_US == <<"U","S">>
T_gb == <<"g","b">>
T_CA == <<"C","A">>
T_DE == <<"D","E">>
T_FR == <<"F","R">>
T_IT == <<"I","T">>
T_ZZ == <<"Z","Z">>

\* The country and year parameters: absent, or a string.
Countries ==
  {Undefined} \cup {JSString(t) : t \in {T_us, T_US, T_gb, T_CA, T_DE, T_FR, T_IT, T_ZZ}}

YearTexts ==
  { <<"1","9","9","9">>, <<"2","0","0","0">>, <<"2","0","2","5">>,
    <<"2","0","3","0">>, <<"2","0","3","1">>,
    <<"2","0","2","5","a","b","c">>, <<"a","b","c">> }

Years == {Undefined} \cup {JSString(t) : t \in YearTexts}

Regions == {Undefined, JSString(<<"c","a">>)}

\* The region parameter as free text: absent, a code, the name of a line of
\* the document, and texts that hold a line feed or a carriage return and a
\* line feed.
FreeRegions ==
  {Undefined, JSString(<<"c","a">>),
   JSString(<<"b","e","g","i","n",":","v","e","v","e","n","t">>),
   JSString(<<"a",LF,"b">>),
   JSString(<<"a",CR,LF,"B","E","G","I","N",":","V","E","V","E","N","T">>)}

\* The X-RapidAPI-Subscription header: absent, or a string.
Subscriptions ==
  {Undefined, JSString(<<"P","r","o">>), JSString(<<"e","n","t","e","r","p","r","i","s","e">>),
   JSString(<<"g","o","l","d">>)}

Request(subscription, country, year, region) ==
  [headers |-> [subscription |-> subscription],
   query |-> [country |-> country, year |-> year, region |-> region]]

\* The requests a client goes on sending within a window: no query, under
\* every header.
RepeatedRequests ==
  {Request(s, Undefined, Undefined, Undefined) : s \in Subscriptions}

\* Every query without the header, one query under every header, and the
\* repeated requests.
Requests ==
  {Request(Undefined, c, y, r) : c \in Countries, y \in Years, r \in Regions}
    \cup {Request(s, JSString(T_DE), JSString(<<"2","0","2","5">>), Undefined) :
            s \in Subscriptions}
    \cup RepeatedRequests

\* The queries for US, DE and IT 2025 with any free-text region.
RegionRequests ==
  {Request(Undefined, JSString(c), JSString(<<"2","0","2","5">>), r) :
     c \in {T_US, T_DE, T_IT}, r \in FreeRegions}

NoRequest == Request(Undefined, Undefined, Undefined, Undefined)

D_xmas == JSString(<<"2","0","2","5","-","1","2","-","2","5">>)
D_may == JSString(<<"2","0","2","5","-","0","5","-","0","1">>)
\* Dates a source may send that are no ISO calendar dates: one with a time,
\* and one followed by CR LF and the text BEGIN:VEVENT.
D_time == JSString(<<"2","0","2","5","-","1","2","-","2","5","T","0","0",":","0","0">>)
D_lines ==
  JSString(<<"2","0","2","5","-","1","2","-","2","5", CR, LF,
             "B","E","G","I","N",":","V","E","V","E","N","T">>)
N_xmas == JSString(<<"X","m","a","s">>)
N_noel == JSString(<<"N","o","e","l">>)
N_may == JSString(<<"M","a","y",",","1">>)
\* A name that holds the lines END:VEVENT and BEGIN:VEVENT.
N_lines ==
  JSString(<<"x", CR, LF, "E","N","D",":","V","E","V","E","N","T", CR, LF,
             "B","E","G","I","N",":","V","E","V","E","N","T">>)

\* The items a source's array is made of: a holiday with a localized name,
\* one whose localized name is its name, an object without any of the
\* properties, and null.
Items ==
  { Item(FALSE, D_xmas, N_xmas, N_noel, "Public"),
    Item(FALSE, D_may, N_may, N_may, "Other"),
    Item(FALSE, Undefined, Undefined, Undefined, "undefined"),
    Item(TRUE, Undefined, Undefined, Undefined, "undefined") }

Arrays == UNION {[1..n -> Items] : n \in 0..MaxRecords}

Responses ==
  {[kind |-> k, items |-> <<>>] : k \in {"error", "timeout", "nodata", "object"}}
    \cup {[kind |-> "array", items |-> a] : a \in Arrays}

Instant(year, month, day, hours, minutes, seconds, ms) ==
  [year |-> year, month |-> month, day |-> day, hours |-> hours,
   minutes |-> minutes, seconds |-> seconds, ms |-> ms]

\* The instants new Date() returns.
Instants == {Instant(2025, 1, 2, 3, 4, 5, 6), Instant(2026, 11, 30, 23, 59, 58, 120)}

-----------------------------------------------------------------------------
(* The state. *)

VARIABLES
  enhancedHolidays,  \* the static table of the process
  pc,                \* where the request is: "idle", "limiter", "validate",
                     \* "await" (an axios.get is pending), "handle" (fetchHolidays
                     \* has ended), "done" (the response is sent)
  req,               \* the request: headers and query
  limiter,           \* the limiter the request was handed to ("none" before)
  validatedQuery,    \* req.validatedQuery
  srcIdx,            \* position of the for loop in apis (0 outside the loop)
  inflight,          \* the URLs of the pending axios.get calls
  requested,         \* the URLs requested so far, in order
  response,          \* the response whose data fetchHolidays mapped and returned
  fetched,           \* how fetchHolidays ended: "none", "source", "static", "threw"
  holidays,          \* the records fetchHolidays returned
  icsCalls,          \* the arguments of the calls of generateICS
  res,               \* the response sent
  hits               \* per limiter, the client's hits counted in the current window

vars == <<enhancedHolidays, pc, req, limiter, validatedQuery, srcIdx, inflight,
          requested, response, fetched, holidays, icsCalls, res, hits>>

NoRes == ErrorResponse(0, "")

Init ==
  /\ enhancedHolidays = InitialTable
  /\ pc = "idle"
  /\ req = NoRequest
  /\ limiter = "none"
  /\ validatedQuery = NoValidatedQuery
  /\ srcIdx = 0
  /\ inflight = {}
  /\ requested = <<>>
  /\ response = NoResponse
  /\ fetched = "none"
  /\ holidays = <<>>
  /\ icsCalls = <<>>
  /\ res = NoRes
  /\ hits = NoHits

-----------------------------------------------------------------------------
(* The steps of GET /holidays. *)

\* A request arrives.  The client the model follows keeps to one tier within
\* a window, sends any request first and then goes on with RepeatedRequests
\* until MaxOver of them have been refused.
Receive(r) ==
  /\ pc = "idle"
  /\ LET l == rateLimitBySubscription(r.headers)
     IN  /\ \A other \in Limiters \ {l} : hits[other] = 0
         /\ hits[l] = 0 \/ r \in RepeatedRequests
         /\ hits[l] < LimiterMax(l) + MaxOver
  /\ pc' = "limiter"
  /\ req' = r
  /\ UNCHANGED <<enhancedHolidays, limiter, validatedQuery, srcIdx, inflight,
                 requested, response, fetched, holidays, icsCalls, res, hits>>

\* rateLimitBySubscription hands the request to a limiter, which counts the
\* hit and calls next(), or answers 429 once the count is over its max.
RateLimit ==
  /\ pc = "limiter"
  /\ LET l == rateLimitBySubscription(req.headers)
     IN  /\ limiter' = l
         /\ hits' = [hits EXCEPT ![l] = @ + 1]
         /\ IF hits[l] + 1 <= LimiterMax(l)
            THEN pc' = "validate" /\ res' = res
            ELSE pc' = "done" /\ res' = ErrorResponse(429, "RATE_LIMIT_EXCEEDED")
  /\ UNCHANGED <<enhancedHolidays, req, validatedQuery, srcIdx, inflight, requested,
                 response, fetched, holidays, icsCalls>>

\* The window of the limiters (60 seconds) elapses: the counts start again.
WindowElapses ==
  /\ hits # NoHits
  /\ hits' = NoHits
  /\ UNCHANGED <<enhancedHolidays, pc, req, limiter, validatedQuery, srcIdx, inflight,
                 requested, response, fetched, holidays, icsCalls, res>>

\* Validate with the limiter giving back the hit of a request it rejects
\* (a limiter created with skipFailedRequests).
ValidateRefundsRejected ==
  /\ pc = "validate"
  /\ LET v == validateHolidayRequest(req.query)
         url == apis(v.validatedQuery.country, v.validatedQuery.year)[1]
     IN  IF v.next
         THEN /\ validatedQuery' = v.validatedQuery
              /\ srcIdx' = 1
              /\ inflight' = {url}
              /\ requested' = <<url>>
              /\ pc' = "await"
              /\ res' = res
              /\ hits' = hits
         ELSE /\ res' = v.res
              /\ pc' = "done"
              /\ hits' = [hits EXCEPT ![limiter] = IF @ > 0 THEN @ - 1 ELSE 0]
              /\ UNCHANGED <<validatedQuery, srcIdx, inflight, requested>>
  /\ UNCHANGED <<enhancedHolidays, req, limiter, response, fetched, holidays, icsCalls>>

\* Validate with fetchHolidays requesting its three sources at once.
ValidateAllSourcesAtOnce ==
  /\ pc = "validate"
  /\ LET v == validateHolidayRequest(req.query)
         urls == apis(v.validatedQuery.country, v.validatedQuery.year)
     IN  IF v.next
         THEN /\ validatedQuery' = v.validatedQuery
              /\ srcIdx' = 1
              /\ inflight' = Range(urls)
              /\ requested' = urls
              /\ pc' = "await"
              /\ res' = res
         ELSE /\ res' = v.res
              /\ pc' = "done"
              /\ UNCHANGED <<validatedQuery, srcIdx, inflight, requested>>
  /\ UNCHANGED <<enhancedHolidays, req, limiter, response, fetched, holidays, icsCalls,
                 hits>>

\* validateHolidayRequest; on next() the route handler runs up to its await:
\* fetchHolidays enters the loop and issues the first axios.get.
Validate ==
  /\ pc = "validate"
  /\ LET v == validateHolidayRequest(req.query)
         url == apis(v.validatedQuery.country, v.validatedQuery.year)[1]
     IN  IF v.next
         THEN /\ validatedQuery' = v.validatedQuery
              /\ srcIdx' = 1
              /\ inflight' = {url}
              /\ requested' = <<url>>
              /\ pc' = "await"
              /\ res' = res
         ELSE /\ res' = v.res
              /\ pc' = "done"
              /\ UNCHANGED <<validatedQuery, srcIdx, inflight, requested>>
  /\ UNCHANGED <<enhancedHolidays, req, limiter, response, fetched, holidays, icsCalls,
                 hits>>

\* The pending axios.get ends with r and fetchHolidays runs on to its next
\* await or to its end: it returns the mapped records, requests the next
\* source, or leaves the loop and reads the static table.
SourceResponds(r) ==
  /\ pc = "await"
  /\ LET a == Attempt(r)
         urls == apis(validatedQuery.country, validatedQuery.year)
     IN  CASE a.kind = "return" ->
                /\ holidays' = a.value
                /\ response' = r
                /\ fetched' = "source"
                /\ inflight' = {}
                /\ pc' = "handle"
                /\ UNCHANGED <<srcIdx, requested>>
           [] a.kind = "next" /\ srcIdx < SourceCount ->
                /\ srcIdx' = srcIdx + 1
                /\ inflight' = {urls[srcIdx + 1]}
                /\ requested' = Append(requested, urls[srcIdx + 1])
                /\ UNCHANGED <<holidays, response, fetched, pc>>
           [] a.kind = "fallback" \/ (a.kind = "next" /\ srcIdx = SourceCount) ->
                /\ holidays' = StaticLookup(enhancedHolidays, validatedQuery.country,
                                            validatedQuery.year)
                /\ fetched' = "static"
                /\ inflight' = {}
                /\ pc' = "handle"
                /\ UNCHANGED <<srcIdx, requested, response>>
           [] OTHER ->
                /\ fetched' = "threw"
                /\ inflight' = {}
                /\ pc' = "handle"
                /\ UNCHANGED <<srcIdx, requested, holidays, response>>
  /\ UNCHANGED <<enhancedHolidays, req, limiter, validatedQuery, icsCalls, res, hits>>

\* HeaderValueOk with setHeader taking any text.
HeaderValueOkAlways(text) == text = text

\* A header value Node accepts: setHeader throws ERR_INVALID_CHAR on a
\* control character such as CR or LF.
HeaderValueOk(text) == \A i \in DOMAIN text : text[i] \notin {CR, LF}

\* The headers of the 200 response.
CalendarHeaders(records, q) ==
  LET filename ==
        IF Truthy(q.region)
        THEN <<"holidays-">> \o q.country \o <<"-">> \o q.region.s \o <<"-">>
               \o NumberToString(q.year) \o <<".ics">>
        ELSE <<"holidays-">> \o q.country \o <<"-">> \o NumberToString(q.year)
               \o <<".ics">>
      base ==
        [h \in {"Content-Type", "Content-Disposition", "X-Holidays-Count",
                "X-Country", "X-Year"} |->
           CASE h = "Content-Type" -> <<"text/calendar; charset=utf-8">>
             [] h = "Content-Disposition" ->
                  <<"attachment; filename=\"">> \o filename \o <<"\"">>
             [] h = "X-Holidays-Count" -> NumberToString(Len(records))
             [] h = "X-Country" -> q.country
             [] h = "X-Year" -> NumberToString(q.year)]
  IN  IF Truthy(q.region) THEN base @@ ("X-Region" :> q.region.s) ELSE base

\* HandlerResult without the test of holidays.length.
HandlerResultNoEmptyTest(fetchEnd, records, q, now) ==
  LET options == [country |-> q.country, year |-> q.year, region |-> q.region]
      call == [holidays |-> records, options |-> options]
  IN  IF fetchEnd = "threw" \/ generateICSThrows(records)
      THEN [res |-> ErrorResponse(500, "INTERNAL_ERROR"), calls |-> <<call>>]
      ELSE [res |-> [status |-> 200, code |-> "",
                     headers |-> CalendarHeaders(records, q),
                     body |-> generateICS(records, options, now)],
            calls |-> <<call>>]

\* HandlerResult without the catch block: an exception of generateICS or of
\* res.set leaves the request without a response.
HandlerResultWithoutCatch(fetchEnd, records, q, now) ==
  LET options == [country |-> q.country, year |-> q.year, region |-> q.region]
      call == [holidays |-> records, options |-> options]
      headers == CalendarHeaders(records, q)
  IN  IF fetchEnd = "threw"
      THEN [res |-> NoRes, calls |-> <<>>]
      ELSE IF Len(records) = 0
      THEN [res |-> ErrorResponse(404, "NO_HOLIDAYS_FOUND"), calls |-> <<>>]
      ELSE IF generateICSThrows(records)
      THEN [res |-> NoRes, calls |-> <<call>>]
      ELSE IF \E h \in DOMAIN headers : ~HeaderValueOk(headers[h])
      THEN [res |-> NoRes, calls |-> <<call>>]
      ELSE [res |-> [status |-> 200, code |-> "", headers |-> headers,
                     body |-> generateICS(records, options, now)],
            calls |-> <<call>>]

\* The route handler after `await fetchHolidays(...)`: the 404, the call of
\* generateICS and the 200, and the catch block's 500.  calls are the
\* arguments generateICS is called with.
HandlerResult(fetchEnd, records, q, now) ==
  LET options == [country |-> q.country, year |-> q.year, region |-> q.region]
      call == [holidays |-> records, options |-> options]
      internalError == ErrorResponse(500, "INTERNAL_ERROR")
      headers == CalendarHeaders(records, q)
  IN  IF fetchEnd = "threw"
      THEN [res |-> internalError, calls |-> <<>>]
      ELSE IF Len(records) = 0
      THEN [res |-> ErrorResponse(404, "NO_HOLIDAYS_FOUND"), calls |-> <<>>]
      ELSE IF generateICSThrows(records)
      THEN [res |-> internalError, calls |-> <<call>>]
      ELSE IF \E h \in DOMAIN headers : ~HeaderValueOk(headers[h])
      THEN [res |-> internalError, calls |-> <<call>>]
      ELSE [res |-> [status |-> 200, code |-> "", headers |-> headers,
                     body |-> generateICS(records, options, now)],
            calls |-> <<call>>]

\* generateICS taking the records off the list it is given (holidays.shift()
\* in place of the read-only forEach).
listAfterGenerateICSShifted(records) == Tail(records)

\* The list generateICS was given, after the call: holidays.forEach reads
\* each record and pushes lines to icsContent; the list is left as it is.
listAfterGenerateICS(records) == records

\* The static table after the route handler has run.  fetchHolidays returns
\* enhancedHolidays[key] itself, not a copy, so whatever generateICS does to
\* the list it is given is done to the entry of the table.
TableAfterHandler(table, fetchEnd, records, q) ==
  LET key == Str(q.country \o <<"-">> \o NumberToString(q.year))
  IN  IF fetchEnd = "static" /\ key \in DOMAIN table /\ Len(records) > 0
      THEN [table EXCEPT ![key] = listAfterGenerateICS(records)]
      ELSE table

\* fetchHolidays has ended and the route handler answers.
Handle(now) ==
  /\ pc = "handle"
  /\ LET h == HandlerResult(fetched, holidays, validatedQuery, now)
     IN  /\ res' = h.res
         /\ icsCalls' = h.calls
  /\ enhancedHolidays' = TableAfterHandler(enhancedHolidays, fetched, holidays,
                                          validatedQuery)
  /\ pc' = "done"
  /\ UNCHANGED <<req, limiter, validatedQuery, srcIdx, inflight, requested, response,
                 fetched, holidays, hits>>

\* The response is sent: the request and everything held for it are
\* discarded, and the server waits for the next request.
Release ==
  /\ pc = "done"
  /\ pc' = "idle"
  /\ req' = NoRequest
  /\ limiter' = "none"
  /\ validatedQuery' = NoValidatedQuery
  /\ srcIdx' = 0
  /\ inflight' = {}
  /\ requested' = <<>>
  /\ response' = NoResponse
  /\ fetched' = "none"
  /\ holidays' = <<>>
  /\ icsCalls' = <<>>
  /\ res' = NoRes
  /\ UNCHANGED <<enhancedHolidays, hits>>

Next ==
  \/ \E r \in Requests : Receive(r)
  \/ RateLimit
  \/ Validate
  \/ \E r \in Responses : SourceResponds(r)
  \/ \E now \in Instants : Handle(now)
  \/ Release
  \/ WindowElapses

Spec == Init /\ [][Next]_vars

-----------------------------------------------------------------------------
(* The encoder on its own: generateICS applied to any sequence of holiday   *)
(* records of the data model and any options of a validated request.        *)

HolidayRecord(date, name, description, type, observed) ==
  [date |-> date, name |-> name, description |-> description, type |-> type,
   observed |-> observed]

TypePublic == JSString(<<"p","u","b","l","i","c">>)
TypeBank == JSString(<<"b","a","n","k">>)

\* Records of the data model: the date is an ISO date, the name is not
\* empty, description and observed are optional, the type is a tag.
Records ==
  { HolidayRecord(D_xmas, N_xmas, Undefined, TypePublic, Undefined),
    HolidayRecord(D_may, N_xmas, N_noel, TypeBank, D_may),
    HolidayRecord(D_may, N_may, JSString(<<"a",";","b",BACKSLASH,LF,"c",CR>>),
                  TypeBank, D_xmas),
    HolidayRecord(D_xmas, JSString(<<"N",BACKSLASH,";",CR,LF,"!">>), N_may,
                  TypePublic, D_may),
    HolidayRecord(D_xmas, JSString(<<"X","-","M","A","S">>), Undefined, TypeBank,
                  Undefined),
    HolidayRecord(D_may, N_lines, N_lines, TypePublic, Undefined) }

RecordSeqs == UNION {[1..n -> Records] : n \in 0..MaxRecords}

OptionsSet ==
  { [country |-> <<"U","S">>, year |-> 2025, region |-> Undefined],
    [country |-> <<"D","E">>, year |-> 2000, region |-> JSString(<<"B","Y">>)] }

InitICS ==
  /\ enhancedHolidays = InitialTable
  /\ pc = "encode"
  /\ req = NoRequest
  /\ limiter = "none"
  /\ validatedQuery \in OptionsSet
  /\ srcIdx = 0
  /\ inflight = {}
  /\ requested = <<>>
  /\ response = NoResponse
  /\ fetched = "none"
  /\ holidays \in RecordSeqs
  /\ icsCalls = <<>>
  /\ res = NoRes
  /\ hits = NoHits

\* generateICS(holidays, options) is called, for the first time or once
\* more on the same arguments, and returns the document.
Encode(now) ==
  /\ pc \in {"encode", "encoded"}
  /\ Len(icsCalls) < MaxCalls
  /\ ~generateICSThrows(holidays)
  /\ res' = [status |-> 200, code |-> "", headers |-> <<>>,
             body |-> generateICS(holidays, validatedQuery, now)]
  /\ icsCalls' = Append(icsCalls, [holidays |-> holidays, options |-> validatedQuery])
  /\ pc' = "encoded"
  /\ UNCHANGED <<enhancedHolidays, req, limiter, validatedQuery, srcIdx, inflight,
                 requested, response, fetched, holidays, hits>>

NextICS == \E now \in Instants : Encode(now)

SpecICS == InitICS /\ [][NextICS]_vars


-----------------------------------------------------------------------------
(* The encoder on texts: generateICS applied to one record whose name and   *)
(* description are any text over the characters escapeText treats and two   *)
(* it leaves alone.                                                          *)

TextAlphabet == {"a", "n", ";", ",", BACKSLASH, LF, CR}

Texts == UNION {[1..n -> TextAlphabet] : n \in 0..MaxText}

InitText ==
  /\ enhancedHolidays = InitialTable
  /\ pc = "encode"
  /\ req = NoRequest
  /\ limiter = "none"
  /\ validatedQuery = [country |-> <<"U","S">>, year |-> 2025, region |-> Undefined]
  /\ srcIdx = 0
  /\ inflight = {}
  /\ requested = <<>>
  /\ response = NoResponse
  /\ fetched = "none"
  /\ holidays \in {<<HolidayRecord(D_xmas, JSString(t), JSString(t), TypePublic,
                                    Undefined)>> : t \in Texts}
  /\ icsCalls = <<>>
  /\ res = NoRes
  /\ hits = NoHits

SpecText == InitText /\ [][NextICS]_vars

-----------------------------------------------------------------------------
(* GET /holidays with a free-text region. *)

NextRegion ==
  \/ \E r \in RegionRequests : Receive(r)
  \/ RateLimit
  \/ Validate
  \/ \E r \in Responses : SourceResponds(r)
  \/ \E now \in Instants : Handle(now)
  \/ Release
  \/ WindowElapses

SpecRegion == Init /\ [][NextRegion]_vars

-----------------------------------------------------------------------------
(* GET /holidays with sources whose items carry any localized name. *)

\* Items named Xmas whose localName is another name, the same name, absent,
\* null, the empty string, a text with characters to escape, or a number.
LocalNameItems ==
  { Item(FALSE, D_xmas, N_xmas, l, "Public") :
      l \in {N_noel, N_xmas, Undefined, Null, JSString(<<>>),
             JSString(<<"a",";","b",LF,"c">>), NumberValue} }

LocalNameResponses ==
  {[kind |-> k, items |-> <<>>] : k \in {"error", "timeout"}}
    \cup {[kind |-> "array", items |-> a] :
            a \in UNION {[1..n -> LocalNameItems] : n \in 0..MaxRecords}}

LocalNameRequests ==
  {Request(Undefined, JSString(T_FR), JSString(<<"2","0","2","5">>), r) : r \in Regions}

NextLocalName ==
  \/ \E r \in LocalNameRequests : Receive(r)
  \/ RateLimit
  \/ Validate
  \/ \E r \in LocalNameResponses : SourceResponds(r)
  \/ \E now \in Instants : Handle(now)
  \/ Release
  \/ WindowElapses

SpecLocalName == Init /\ [][NextLocalName]_vars

-----------------------------------------------------------------------------
(* GET /holidays with sources whose items carry any text as their date. *)

DateItems ==
  {Item(FALSE, d, N_xmas, N_xmas, "Public") : d \in {D_xmas, D_time, D_lines}}

DateResponses ==
  {[kind |-> "error", items |-> <<>>]}
    \cup {[kind |-> "array", items |-> a] :
            a \in UNION {[1..n -> DateItems] : n \in 0..MaxRecords}}

NextSourceDates ==
  \/ \E r \in LocalNameRequests : Receive(r)
  \/ RateLimit
  \/ Validate
  \/ \E r \in DateResponses : SourceResponds(r)
  \/ \E now \in Instants : Handle(now)
  \/ Release
  \/ WindowElapses

SpecSourceDates == Init /\ [][NextSourceDates]_vars

-----------------------------------------------------------------------------
(* generateICS wherever it is called: by the route handler on the records   *)
(* of fetchHolidays, or on any records of the data model.                   *)

InitAll == Init \/ InitICS

NextAll == Next \/ NextICS

SpecAll == InitAll /\ [][NextAll]_vars

-----------------------------------------------------------------------------
(* GET /holidays when every middleware and the handler run on and every     *)
(* axios.get ends (with a response, an error or its timeout of 3000 ms).     *)

\* The steps of RateLimit, Validate, SourceResponds and Handle, told by what
\* they do to pc and srcIdx.
LimiterRuns == pc = "limiter" /\ pc' \in {"validate", "done"}
ValidationRuns == pc = "validate" /\ pc' \in {"await", "done"}
SourceRequestEnds ==
  /\ pc = "await"
  /\ \/ pc' = "handle" /\ srcIdx' = srcIdx
     \/ pc' = "await" /\ srcIdx' = srcIdx + 1
HandlerRuns == pc = "handle" /\ pc' = "done"

FairSpec ==
  /\ Spec
  /\ WF_pc(LimiterRuns)
  /\ WF_pc(ValidationRuns)
  /\ WF_<<pc, srcIdx>>(SourceRequestEnds)
  /\ WF_pc(HandlerRuns)

-----------------------------------------------------------------------------
(* GET /holidays with several requests handled at the same time.  Node runs *)
(* one callback at a time: the steps of the requests interleave at the end  *)
(* of each middleware and at each await.  What belongs to a request (pc,    *)
(* req, limiter, validatedQuery, srcIdx, inflight, requested, response,     *)
(* fetched, holidays, icsCalls, res) is held per request; enhancedHolidays  *)
(* and hits belong to the process.                                          *)

Concurrent == 1..MaxConcurrent

\* The requests sent at the same time: DE 2025 (in the static table) and IT
\* 2025 (not in it).
ConcurrentRequests ==
  {Request(Undefined, JSString(c), JSString(<<"2","0","2","5">>), Undefined) :
     c \in {T_DE, T_IT}}

\* What the request to source i ends with: an error, or (the first source,
\* the one that wants no API key) an array of one holiday.
ConcurrentResponses(i) ==
  {[kind |-> "error", items |-> <<>>]}
    \cup (IF i = 1
          THEN {[kind |-> "array",
                 items |-> <<Item(FALSE, D_xmas, N_xmas, N_noel, "Public")>>]}
          ELSE {})

InitConcurrent ==
  /\ enhancedHolidays = InitialTable
  /\ pc = [c \in Concurrent |-> "idle"]
  /\ req = [c \in Concurrent |-> NoRequest]
  /\ limiter = [c \in Concurrent |-> "none"]
  /\ validatedQuery = [c \in Concurrent |-> NoValidatedQuery]
  /\ srcIdx = [c \in Concurrent |-> 0]
  /\ inflight = [c \in Concurrent |-> {}]
  /\ requested = [c \in Concurrent |-> <<>>]
  /\ response = [c \in Concurrent |-> NoResponse]
  /\ fetched = [c \in Concurrent |-> "none"]
  /\ holidays = [c \in Concurrent |-> <<>>]
  /\ icsCalls = [c \in Concurrent |-> <<>>]
  /\ res = [c \in Concurrent |-> NoRes]
  /\ hits = NoHits

\* Request r arrives while others are being handled and is held in the
\* first free place; the window holds up to MaxConcurrent requests.
ReceiveAt(c, r) ==
  /\ pc[c] = "idle"
  /\ \A d \in 1..(c - 1) : pc[d] # "idle"
  /\ hits[rateLimitBySubscription(r.headers)] < MaxConcurrent
  /\ pc' = [pc EXCEPT ![c] = "limiter"]
  /\ req' = [req EXCEPT ![c] = r]
  /\ UNCHANGED <<enhancedHolidays, limiter, validatedQuery, srcIdx, inflight,
                 requested, response, fetched, holidays, icsCalls, res, hits>>

RateLimitAt(c) ==
  /\ pc[c] = "limiter"
  /\ LET l == rateLimitBySubscription(req[c].headers)
     IN  /\ limiter' = [limiter EXCEPT ![c] = l]
         /\ hits' = [hits EXCEPT ![l] = @ + 1]
         /\ IF hits[l] + 1 <= LimiterMax(l)
            THEN pc' = [pc EXCEPT ![c] = "validate"] /\ res' = res
            ELSE /\ pc' = [pc EXCEPT ![c] = "done"]
                 /\ res' = [res EXCEPT ![c] = ErrorResponse(429, "RATE_LIMIT_EXCEEDED")]
  /\ UNCHANGED <<enhancedHolidays, req, validatedQuery, srcIdx, inflight, requested,
                 response, fetched, holidays, icsCalls>>

ValidateAt(c) ==
  /\ pc[c] = "validate"
  /\ LET v == validateHolidayRequest(req[c].query)
         url == apis(v.validatedQuery.country, v.validatedQuery.year)[1]
     IN  IF v.next
         THEN /\ validatedQuery' = [validatedQuery EXCEPT ![c] = v.validatedQuery]
              /\ srcIdx' = [srcIdx EXCEPT ![c] = 1]
              /\ inflight' = [inflight EXCEPT ![c] = {url}]
              /\ requested' = [requested EXCEPT ![c] = <<url>>]
              /\ pc' = [pc EXCEPT ![c] = "await"]
              /\ res' = res
         ELSE /\ res' = [res EXCEPT ![c] = v.res]
              /\ pc' = [pc EXCEPT ![c] = "done"]
              /\ UNCHANGED <<validatedQuery, srcIdx, inflight, requested>>
  /\ UNCHANGED <<enhancedHolidays, req, limiter, response, fetched, holidays, icsCalls,
                 hits>>

SourceRespondsAt(c, r) ==
  /\ pc[c] = "await"
  /\ LET a == Attempt(r)
         q == validatedQuery[c]
         urls == apis(q.country, q.year)
     IN  CASE a.kind = "return" ->
                /\ holidays' = [holidays EXCEPT ![c] = a.value]
                /\ response' = [response EXCEPT ![c] = r]
                /\ fetched' = [fetched EXCEPT ![c] = "source"]
                /\ inflight' = [inflight EXCEPT ![c] = {}]
                /\ pc' = [pc EXCEPT ![c] = "handle"]
                /\ UNCHANGED <<srcIdx, requested>>
           [] a.kind = "next" /\ srcIdx[c] < SourceCount ->
                /\ srcIdx' = [srcIdx EXCEPT ![c] = @ + 1]
                /\ inflight' = [inflight EXCEPT ![c] = {urls[srcIdx[c] + 1]}]
                /\ requested' = [requested EXCEPT ![c] = Append(@, urls[srcIdx[c] + 1])]
                /\ UNCHANGED <<holidays, response, fetched, pc>>
           [] a.kind = "fallback" \/ (a.kind = "next" /\ srcIdx[c] = SourceCount) ->
                /\ holidays' = [holidays EXCEPT
                                  ![c] = StaticLookup(enhancedHolidays, q.country, q.year)]
                /\ fetched' = [fetched EXCEPT ![c] = "static"]
                /\ inflight' = [inflight EXCEPT ![c] = {}]
                /\ pc' = [pc EXCEPT ![c] = "handle"]
                /\ UNCHANGED <<srcIdx, requested, response>>
           [] OTHER ->
                /\ fetched' = [fetched EXCEPT ![c] = "threw"]
                /\ inflight' = [inflight EXCEPT ![c] = {}]
                /\ pc' = [pc EXCEPT ![c] = "handle"]
                /\ UNCHANGED <<srcIdx, requested, holidays, response>>
  /\ UNCHANGED <<enhancedHolidays, req, limiter, validatedQuery, icsCalls, res, hits>>

HandleAt(c, now) ==
  /\ pc[c] = "handle"
  /\ LET h == HandlerResult(fetched[c], holidays[c], validatedQuery[c], now)
     IN  /\ res' = [res EXCEPT ![c] = h.res]
         /\ icsCalls' = [icsCalls EXCEPT ![c] = h.calls]
  /\ enhancedHolidays' = TableAfterHandler(enhancedHolidays, fetched[c], holidays[c],
                                          validatedQuery[c])
  /\ pc' = [pc EXCEPT ![c] = "done"]
  /\ UNCHANGED <<req, limiter, validatedQuery, srcIdx, inflight, requested, response,
                 fetched, holidays, hits>>

ReleaseAt(c) ==
  /\ pc[c] = "done"
  /\ pc' = [pc EXCEPT ![c] = "idle"]
  /\ req' = [req EXCEPT ![c] = NoRequest]
  /\ limiter' = [limiter EXCEPT ![c] = "none"]
  /\ validatedQuery' = [validatedQuery EXCEPT ![c] = NoValidatedQuery]
  /\ srcIdx' = [srcIdx EXCEPT ![c] = 0]
  /\ inflight' = [inflight EXCEPT ![c] = {}]
  /\ requested' = [requested EXCEPT ![c] = <<>>]
  /\ response' = [response EXCEPT ![c] = NoResponse]
  /\ fetched' = [fetched EXCEPT ![c] = "none"]
  /\ holidays' = [holidays EXCEPT ![c] = <<>>]
  /\ icsCalls' = [icsCalls EXCEPT ![c] = <<>>]
  /\ res' = [res EXCEPT ![c] = NoRes]
  /\ UNCHANGED <<enhancedHolidays, hits>>

NextConcurrent ==
  \/ \E c \in Concurrent, r \in ConcurrentRequests : ReceiveAt(c, r)
  \/ \E c \in Concurrent : RateLimitAt(c)
  \/ \E c \in Concurrent : ValidateAt(c)
  \/ \E c \in Concurrent : \E r \in ConcurrentResponses(srcIdx[c]) : SourceRespondsAt(c, r)
  \/ \E c \in Concurrent : HandleAt(c, Instant(2025, 1, 2, 3, 4, 5, 6))
  \/ \E c \in Concurrent : ReleaseAt(c)
  \/ WindowElapses

SpecConcurrent == InitConcurrent /\ [][NextConcurrent]_vars
-----------------------------------------------------------------------------
(* Reading a request and a document back. *)

\* fetchHolidays has ended for the current request.
FetchEnded == pc \in {"handle", "done"} /\ fetched # "none"

\* validateHolidayRequest has called next() for the current request.
Accepted == validatedQuery # NoValidatedQuery

\* The request was answered by the limiter.
RateLimited == res.status = 429

\* The key of the static table for the validated query.
StaticKey == Str(validatedQuery.country) \o "-" \o Str(NumberToString(validatedQuery.year))

\* The lines of a document: the texts between its CR LF pairs.
RECURSIVE SplitLines(_)
SplitLines(doc) ==
  LET ends == {i \in 1..(Len(doc) - 1) : doc[i] = CR /\ doc[i + 1] = LF}
  IN  IF ends = {} THEN <<doc>>
      ELSE LET i == CHOOSE h \in ends :
                       Cardinality({g \in ends : g < h}) = Cardinality(ends) \div 2
           IN  SplitLines(SubSeq(doc, 1, i - 1))
                 \o SplitLines(SubSeq(doc, i + 2, Len(doc)))

\* The positions, in increasing order, of the lines of ls that read s.
LinesReading(ls, s) ==
  SelectSeq([i \in DOMAIN ls |-> i], LAMBDA i : Str(ls[i]) = s)

HeaderLength == 10

\* The document doc is a header of HeaderLength lines that starts with
\* BEGIN:VCALENDAR, then one BEGIN:VEVENT ... END:VEVENT block per record of
\* records, the i-th block holding the DTSTART line of the i-th record's date
\* and the SUMMARY line of its name, then the line END:VCALENDAR.
OneBlockPerRecord(doc, records) ==
  LET ls == SplitLines(doc)
      begins == LinesReading(ls, "BEGIN:VEVENT")
      ends == LinesReading(ls, "END:VEVENT")
      n == Len(records)
      DateDigits(r) == SelectSeq(r.date.s, LAMBDA c : c # "-")
  IN  /\ Len(ls) > HeaderLength
      /\ Str(ls[1]) = "BEGIN:VCALENDAR"
      /\ Str(ls[Len(ls)]) = "END:VCALENDAR"
      /\ Len(begins) = n
      /\ Len(ends) = n
      /\ n = 0 => Len(ls) = HeaderLength + 1
      /\ n > 0 => begins[1] = HeaderLength + 1 /\ ends[n] = Len(ls) - 1
      /\ \A i \in 1..n :
           /\ begins[i] < ends[i]
           /\ i < n => begins[i + 1] = ends[i] + 1
           /\ \E j \in (begins[i] + 1)..(ends[i] - 1) :
                Str(ls[j]) = "DTSTART;VALUE=DATE:" \o Str(DateDigits(records[i]))
           /\ \E j \in (begins[i] + 1)..(ends[i] - 1) :
                Str(ls[j]) = "SUMMARY:" \o Str(escapeText(records[i].name.s))

\* An integer written in decimal: digits only, at least one.
IsDecimalNumeral(t) == t # <<>> /\ \A i \in DOMAIN t : t[i] \in Range(Digits)

RECURSIVE NumeralValue(_)
NumeralValue(t) ==
  IF t = <<>> THEN 0
  ELSE 10 * NumeralValue(SubSeq(t, 1, Len(t) - 1))
         + ((CHOOSE i \in DOMAIN Digits : Digits[i] = t[Len(t)]) - 1)

\* The year parameter is the numeral of an integer in 2000..2030.
YearIsIntegerInRange(year) ==
  /\ year.k = "string"
  /\ IsDecimalNumeral(year.s)
  /\ NumeralValue(year.s) \in 2000..2030

CountryMissing(q) == q.country.k = "undefined" \/ q.country.s = <<>>
CountryInList(q) == ~CountryMissing(q) /\ Str(toUpperCase(q.country.s)) \in VALID_COUNTRIES
YearMissing(q) == q.year.k = "undefined" \/ q.year.s = <<>>

-----------------------------------------------------------------------------
(* The claims. *)

\* C1: whatever the three external sources do (an answer, an error, a
\* timeout, a body that is no array, an array with a malformed item),
\* fetchHolidays ends without throwing; and when it ends at the static table
\* (no source yielded data) and the table has no "{country}-{year}" key, it
\* returns the empty sequence.
C1_FetchNeverThrows ==
  /\ fetched # "threw"
  /\ pc \in {"handle", "done"} /\ Accepted => fetched \in {"source", "static"}
  /\ FetchEnded /\ fetched = "static" /\ StaticKey \notin TableKeys => holidays = <<>>

\* C1 witness: all three sources failed for a country without a table entry
\* and fetchHolidays returned the empty sequence.
C1_Witness ==
  /\ pc = "handle"
  /\ fetched = "static"
  /\ Len(requested) = SourceCount
  /\ StaticKey \notin TableKeys
  /\ holidays = <<>>

\* C2 (as claimed): when every source consulted failed or answered with a
\* list of zero records, fetchHolidays returns the static entry of
\* "{country}-{year}", and the empty sequence when the key is absent.
C2_FallbackWhenNoUsableData ==
  FetchEnded /\ (fetched = "static" \/ (fetched = "source" /\ response.items = <<>>))
    => holidays = (IF StaticKey \in TableKeys THEN InitialTable[StaticKey] ELSE <<>>)

\* C3: the sources are requested in the order date.nager.at, holidayapi.com,
\* calendarific.com, one after the other; when a source succeeds its records
\* are returned (date and name of each item, in order), no later source has
\* been requested and none is requested afterwards, and the static table is
\* not used; the static table is used only after all three sources were
\* requested and failed.
C3_Requests ==
  LET hosts == << "https://date.nager.at/api/v3/PublicHolidays/",
                  "https://holidayapi.com/v1/holidays?country=",
                  "https://calendarific.com/api/v2/holidays?country=" >>
  IN  /\ Len(requested) <= 3
      /\ \A i \in DOMAIN requested : requested[i][1] = hosts[i]
      /\ pc = "await" => inflight = {requested[Len(requested)]}
      /\ FetchEnded /\ fetched = "source" =>
           /\ response.kind = "array"
           /\ Len(holidays) = Len(response.items)
           /\ \A i \in DOMAIN holidays :
                /\ holidays[i].date = response.items[i].date
                /\ holidays[i].name = response.items[i].name
           /\ inflight = {}
      /\ FetchEnded /\ fetched = "static" => Len(requested) = 3 /\ inflight = {}

\* C3, with the step property: after a source has succeeded its records stay
\* the result and no further source is requested for the request.
C3_SourceOrderAndEarlyReturn ==
  /\ []C3_Requests
  /\ [][fetched = "source" /\ pc' # "idle"
          => requested' = requested /\ fetched' = "source" /\ holidays' = holidays]_vars

\* C3 witness: the first source failed, the second answered with two records
\* and these were returned; the third was never requested.
C3_Witness ==
  /\ pc = "done"
  /\ fetched = "source"
  /\ Len(requested) = 2
  /\ Len(holidays) = 2

\* C4 (as claimed): a validated request is answered 200 or 404 whatever the
\* external sources do, never 500.
C4_SourceFailuresNeverSurface ==
  pc = "done" /\ Accepted => res.status \in {200, 404}

C6_EmptyResultIs404 ==
  /\ pc = "done" /\ fetched \in {"source", "static"} /\ holidays = <<>> =>
       res.status = 404 /\ res.code = "NO_HOLIDAYS_FOUND" /\ icsCalls = <<>>
  /\ \A i \in DOMAIN icsCalls : icsCalls[i].holidays # <<>>
  /\ pc = "done" /\ res.status = 200 => Len(icsCalls) = 1

\* C6 witness: a source answered with an empty array and the answer was 404.
C6_Witness ==
  /\ pc = "done"
  /\ fetched = "source"
  /\ holidays = <<>>
  /\ res.status = 404

\* C7 (as claimed): a year is accepted exactly when it is an integer in
\* 2000..2030, and the validated year is that integer.
C7_YearAcceptedIffIntegerInRange ==
  pc \in {"await", "handle", "done"} /\ ~RateLimited /\ CountryInList(req.query) =>
    /\ Accepted <=> YearIsIntegerInRange(req.query.year)
    /\ Accepted => validatedQuery.year = NumeralValue(req.query.year.s)

\* An exception inside the route handler: a record whose date, name or
\* truthy description is no string makes generateICS throw.
HandlerThrows ==
  \E i \in DOMAIN holidays :
    \/ holidays[i].date.k # "string"
    \/ holidays[i].name.k # "string"
    \/ holidays[i].description.k = "number"

C9_OneEventBlockPerRecord ==
  pc = "encoded" => OneBlockPerRecord(res.body, holidays)

\* C9 witness: a document was produced from two different records.
C9_Witness ==
  /\ pc = "encoded"
  /\ Len(holidays) = 2
  /\ holidays[1].date # holidays[2].date
  /\ holidays[1].name # holidays[2].name

\* C10: for every (country, year) with an entry in the static table, when
\* all three sources fail the answer is a document with exactly one event
\* block per record of the entry, in the order of the entry.
C10_StaticEntryRendered ==
  pc = "done" /\ fetched = "static" /\ StaticKey \in TableKeys =>
    /\ res.status = 200
    /\ Len(InitialTable[StaticKey]) > 0
    /\ OneBlockPerRecord(res.body, InitialTable[StaticKey])

\* C10 witness: all sources failed for GB 2025 and the 8 records of the
\* table were rendered.
C10_Witness ==
  /\ pc = "done"
  /\ fetched = "static"
  /\ StaticKey = "GB-2025"
  /\ res.status = 200
  /\ Len(SplitLines(res.body)) > HeaderLength + 8


-----------------------------------------------------------------------------
(* Reading the event blocks of a document. *)

\* The line is a DTSTAMP line.
IsStamp(line) == line # <<>> /\ line[1] = "DTSTAMP:"

\* Two documents agree line for line, DTSTAMP lines apart.
SameButStamp(a, b) ==
  LET la == SplitLines(a)
      lb == SplitLines(b)
  IN  /\ Len(la) = Len(lb)
      /\ \A i \in DOMAIN la :
           \/ la[i] = lb[i]
           \/ IsStamp(la[i]) /\ IsStamp(lb[i])

\* C11: a call of generateICS that follows a call with the same records and
\* options returns a document that agrees with the earlier one line for
\* line, the DTSTAMP lines apart; the UID lines are the same.
C11_SameDocumentButStamp ==
  [][pc = "encoded" /\ pc' = "encoded" => SameButStamp(res.body, res'.body)]_vars

\* C11 witness: generateICS was called twice with the same two records and
\* options.
C11_Witness ==
  /\ pc = "encoded"
  /\ Len(icsCalls) = 2
  /\ icsCalls[1] = icsCalls[2]
  /\ Len(holidays) = 2

\* What the rule of escaping makes of one character.
EscapedChar(c) ==
  CASE c = BACKSLASH -> <<BACKSLASH, BACKSLASH>>
    [] c = ";" -> <<BACKSLASH, ";">>
    [] c = "," -> <<BACKSLASH, ",">>
    [] c = LF -> <<BACKSLASH, "n">>
    [] c = CR -> <<>>
    [] OTHER -> <<c>>

\* The text escaped character by character.
EscapedCharByChar(t) == Flatten([i \in DOMAIN t |-> EscapedChar(t[i])])

\* The lines of the document from the i-th BEGIN:VEVENT to the i-th
\* END:VEVENT.
EventBlock(doc, i) ==
  LET ls == SplitLines(doc)
      begins == LinesReading(ls, "BEGIN:VEVENT")
      ends == LinesReading(ls, "END:VEVENT")
  IN  SubSeq(ls, begins[i], ends[i])

\* The lines of a block that start with the property name.
LinesOf(block, property) ==
  SelectSeq(block, LAMBDA line : line # <<>> /\ line[1] = property)

\* C12: the SUMMARY and DESCRIPTION values generateICS writes for a text are
\* the text escaped character by character: backslash doubled, semicolon,
\* comma and line feed (as the letter n) behind a backslash, carriage return
\* dropped, any other character kept, and no backslash escaped twice.
C12_EscapedCharByChar ==
  pc = "encoded" =>
    \A i \in DOMAIN holidays :
      LET block == EventBlock(res.body, i)
          h == holidays[i]
      IN  /\ Len(LinesOf(block, "SUMMARY:")) = 1
          /\ LinesOf(block, "SUMMARY:")[1] = <<"SUMMARY:">> \o EscapedCharByChar(h.name.s)
          /\ Truthy(h.description) =>
               /\ Len(LinesOf(block, "DESCRIPTION:")) = 1
               /\ LinesOf(block, "DESCRIPTION:")[1]
                    = <<"DESCRIPTION:">> \o EscapedCharByChar(h.description.s)

\* C12 witness: a text holding a backslash, a semicolon and a line feed was
\* escaped.
C12_Witness ==
  /\ pc = "encoded"
  /\ Len(holidays) = 1
  /\ holidays[1].name.s = <<BACKSLASH, ";", LF>>
  /\ LinesOf(EventBlock(res.body, 1), "SUMMARY:")[1]
       = <<"SUMMARY:", BACKSLASH, BACKSLASH, BACKSLASH, ";", BACKSLASH, "n">>

\* C13: two records of one document that differ in date or in name never
\* get the same UID (generateUID gives different identifiers to inputs that
\* differ in date, name, country or year).
C13_DistinctRecordsDistinctUIDs ==
  pc = "encoded" =>
    \A i, j \in DOMAIN holidays :
      holidays[i].date # holidays[j].date \/ holidays[i].name # holidays[j].name =>
        LinesOf(EventBlock(res.body, i), "UID:") # LinesOf(EventBlock(res.body, j), "UID:")

\* The record has an observed date.
ObservedPresent(h) == h.observed # Undefined

\* C14: the block of a record holds an X-OBSERVED-DATE line, with the digits
\* of the observed date, exactly when the record has an observed date that
\* differs from its date; records whose observed date equals their date are
\* encoded without an error and without the line.
C14_ObservedLineIffDiffers ==
  /\ pc = "encode" => ~generateICSThrows(holidays)
  /\ pc = "encoded" =>
       \A i \in DOMAIN holidays :
         LET h == holidays[i]
             found == LinesOf(EventBlock(res.body, i), "X-OBSERVED-DATE:")
         IN  IF ObservedPresent(h) /\ h.observed # h.date
             THEN found = << <<"X-OBSERVED-DATE:">>
                               \o SelectSeq(h.observed.s, LAMBDA c : c # "-") >>
             ELSE found = <<>>

\* C14 witness: a document was produced from a record whose observed date
\* is its date and a record whose observed date is another day.
C14_Witness ==
  /\ pc = "encoded"
  /\ Len(holidays) = 2
  /\ ObservedPresent(holidays[1]) /\ holidays[1].observed = holidays[1].date
  /\ ObservedPresent(holidays[2]) /\ holidays[2].observed # holidays[2].date
  /\ LinesOf(EventBlock(res.body, 1), "X-OBSERVED-DATE:") = <<>>
  /\ Len(LinesOf(EventBlock(res.body, 2), "X-OBSERVED-DATE:")) = 1

\* The request is for country US and year 2025 without a region.
ForUS2025 ==
  /\ req.query.country = JSString(T_US)
  /\ req.query.year = JSString(<<"2","0","2","5">>)
  /\ req.query.region = Undefined

\* C15: the request for US, 2025, no region, is answered, when no source
\* delivered and fetchHolidays fell back to the static table, with a
\* document of 10 event blocks whose calendar name line reads
\* X-WR-CALNAME:US Public Holidays 2025 and whose first summary line reads
\* SUMMARY:New Year's Day.
C15_US2025FromStaticTable ==
  pc = "done" /\ ForUS2025 /\ fetched = "static" =>
    /\ res.status = 200
    /\ LET ls == SplitLines(res.body)
           names == LinesOf(ls, "X-WR-CALNAME:")
       IN  /\ Len(LinesReading(ls, "BEGIN:VEVENT")) = 10
           /\ Len(LinesReading(ls, "END:VEVENT")) = 10
           /\ Len(names) = 1
           /\ Str(names[1]) = "X-WR-CALNAME:US Public Holidays 2025"
           /\ Str(LinesOf(EventBlock(res.body, 1), "SUMMARY:")[1])
                = "SUMMARY:New Year's Day"

\* C15 witness: the three sources were asked, none delivered, and the
\* request for US 2025 was answered 200.
C15_Witness ==
  /\ pc = "done"
  /\ ForUS2025
  /\ fetched = "static"
  /\ Len(requested) = SourceCount
  /\ res.status = 200
  /\ Len(LinesReading(SplitLines(res.body), "BEGIN:VEVENT")) = 10

\* The lines of a document from its first BEGIN:VEVENT to its last
\* END:VEVENT.
EventPart(doc) ==
  LET ls == SplitLines(doc)
      begins == LinesReading(ls, "BEGIN:VEVENT")
      ends == LinesReading(ls, "END:VEVENT")
  IN  IF begins = <<>> \/ ends = <<>> THEN <<>>
      ELSE SubSeq(ls, begins[1], ends[Len(ends)])

\* Two responses differ in nothing but the calendar name line of the
\* document, the filename and the X-Region header.
SameButRegionLabels(a, b) ==
  /\ a.status = b.status
  /\ a.status = 200 =>
       /\ EventPart(a.body) = EventPart(b.body)
       /\ LET la == SplitLines(a.body)
              lb == SplitLines(b.body)
          IN  /\ Len(la) = Len(lb)
              /\ \A i \in DOMAIN la :
                   \/ la[i] = lb[i]
                   \/ la[i][1] = "X-WR-CALNAME:" /\ lb[i][1] = "X-WR-CALNAME:"
       /\ \A h \in (DOMAIN a.headers \cup DOMAIN b.headers)
                    \ {"Content-Disposition", "X-Region"} :
            h \in DOMAIN a.headers /\ h \in DOMAIN b.headers /\ a.headers[h] = b.headers[h]

\* C16: the source requests, the static key and the records of an accepted
\* request are those of its country and year alone, and its answer is the
\* answer to the same request without region (same source behaviour, same
\* instant) but for the calendar name line, the filename and the X-Region
\* header: same status, same event blocks.
C16_RegionOnlyLabels ==
  pc = "done" /\ Accepted =>
    LET q == [validatedQuery EXCEPT !.region = Undefined]
    IN  /\ requested = SubSeq(apis(q.country, q.year), 1, Len(requested))
        /\ fetched = "static" => holidays = StaticLookup(enhancedHolidays, q.country, q.year)
        /\ \E now \in Instants :
             SameButRegionLabels(res, HandlerResult(fetched, holidays, q, now).res)

\* C17: every line of the document, END:VCALENDAR included, ends with CR LF:
\* the document ends with CR LF.
C17_EveryLineTerminated ==
  pc = "encoded" =>
    /\ Len(res.body) >= 2
    /\ SubSeq(res.body, Len(res.body) - 1, Len(res.body)) = <<CR, LF>>

\* The lines the block of record h is to hold, in order, each given by its
\* property name or, where the claim fixes it, as the whole line.
BlockPattern(h) ==
  <<"BEGIN:VEVENT", "UID:", "DTSTAMP:", "DTSTART;VALUE=DATE:", "SUMMARY:",
    "STATUS:CONFIRMED", "TRANSP:TRANSPARENT", "CLASS:PUBLIC", "PRIORITY:5">>
    \o (IF Truthy(h.description) THEN <<"DESCRIPTION:">> ELSE <<>>)
    \o <<"CATEGORIES:">>
    \o (IF ObservedPresent(h) /\ h.observed # h.date THEN <<"X-OBSERVED-DATE:">> ELSE <<>>)
    \o <<"END:VEVENT">>

\* The patterns that are whole lines.
WholeLines ==
  {"BEGIN:VEVENT", "STATUS:CONFIRMED", "TRANSP:TRANSPARENT", "CLASS:PUBLIC",
   "PRIORITY:5", "END:VEVENT"}

\* The block is made of the lines of the pattern, one each, in its order.
BlockFollows(block, pattern) ==
  /\ Len(block) = Len(pattern)
  /\ \A k \in DOMAIN pattern :
       /\ block[k] # <<>>
       /\ block[k][1] = pattern[k]
       /\ pattern[k] \in WholeLines => Len(block[k]) = 1

\* generateICS has returned a document: to the route handler that answered
\* 200 with it, or to a caller of its own.
DocumentProduced == pc = "encoded" \/ (pc = "done" /\ res.status = 200)

\* C20: every event block holds, once each and in this order, BEGIN:VEVENT,
\* UID, DTSTAMP, DTSTART;VALUE=DATE, SUMMARY, STATUS:CONFIRMED,
\* TRANSP:TRANSPARENT, CLASS:PUBLIC, PRIORITY:5, DESCRIPTION if the record
\* has a description, CATEGORIES with the upper-cased type and HOLIDAY, the
\* observed-date line if the observed date differs, END:VEVENT; and for the
\* records fetchHolidays returned the categories are PUBLIC,HOLIDAY or
\* BANK,HOLIDAY.
C20_BlockFieldsInOrder ==
  DocumentProduced =>
    \A i \in DOMAIN holidays :
      LET block == EventBlock(res.body, i)
          h == holidays[i]
          categories == Str(LinesOf(block, "CATEGORIES:")[1])
      IN  /\ BlockFollows(block, BlockPattern(h))
          /\ categories = "CATEGORIES:" \o Str(toUpperCase(h.type.s)) \o ",HOLIDAY"
          /\ pc = "done" =>
               categories \in {"CATEGORIES:PUBLIC,HOLIDAY", "CATEGORIES:BANK,HOLIDAY"}

\* C20 witness: the handler answered with a document of two records of a
\* source, one with a description and one without.
C20_Witness ==
  /\ pc = "done"
  /\ res.status = 200
  /\ fetched = "source"
  /\ Len(holidays) = 2
  /\ Truthy(holidays[1].description)
  /\ ~Truthy(holidays[2].description)
  /\ Len(EventBlock(res.body, 1)) = 12
  /\ Len(EventBlock(res.body, 2)) = 11

\* The statuses GET /holidays answers with.
Statuses == {200, 400, 404, 429, 500}

\* C18: every request that has arrived is answered (when every source
\* request ends), the answer has status 200, 400, 404, 429 or 500, nothing
\* is sent before the request is done, and a response once sent is not
\* followed by another one for the same request.
C18_EveryRequestAnsweredOnce ==
  /\ (pc = "limiter") ~> (pc = "done")
  /\ [](pc = "done" => res.status \in Statuses)
  /\ [](pc \in {"idle", "limiter", "validate", "await", "handle"} => res = NoRes)
  /\ [][pc = "done" => res' = res \/ pc' = "idle"]_vars

\* C18 witness: a request whose records made generateICS throw was answered
\* 500.
C18_Witness ==
  /\ pc = "done"
  /\ fetched = "source"
  /\ generateICSThrows(holidays)
  /\ res.status = 500

\* The text is the word, letter case apart.
IsWord(text, word) ==
  /\ Len(text) = Len(word)
  /\ \A i \in DOMAIN text : text[i] \in {word[i], UpperChar(word[i])}

\* The tier the X-RapidAPI-Subscription header of a request names.
TierNamed(r) ==
  LET h == r.headers.subscription
  IN  IF h.k = "string" /\ IsWord(h.s, <<"e","n","t","e","r","p","r","i","s","e">>)
      THEN "enterprise"
      ELSE IF h.k = "string" /\ IsWord(h.s, <<"p","r","o">>) THEN "pro"
      ELSE "basic"

\* Requests per minute of a tier.
PerMinute(tier) ==
  CASE tier = "enterprise" -> 1000
    [] tier = "pro" -> 100
    [] tier = "basic" -> 10

\* C19: a request goes to the limiter of the tier its header names, letter
\* case apart (enterprise 1000, pro 100, anything else or nothing 10 per
\* minute); the limiter counts it, admits it when fewer requests than its
\* number were counted before it in the window and answers 429
\* RATE_LIMIT_EXCEEDED otherwise; and the counts change in no other way
\* until the window ends.  So at most that number of requests of a client
\* that keeps to one tier are admitted in a window.
C19_TierLimits ==
  /\ [][pc = "limiter" /\ pc' # "limiter" =>
         LET tier == TierNamed(req)
         IN  /\ limiter' = tier
             /\ hits' = [hits EXCEPT ![tier] = @ + 1]
             /\ IF hits[tier] < PerMinute(tier)
                THEN pc' = "validate" /\ res' = NoRes
                ELSE /\ pc' = "done"
                     /\ res'.status = 429
                     /\ res'.code = "RATE_LIMIT_EXCEEDED"]_vars
  /\ [][pc # "limiter" => hits' = hits \/ hits' = NoHits]_vars

\* C19 witness: the 101st request of a window under the header Pro was
\* answered 429 by the pro limiter.
C19_Witness ==
  /\ pc = "done"
  /\ req.headers.subscription = JSString(<<"P","r","o">>)
  /\ limiter = "pro"
  /\ hits["pro"] = 101
  /\ res.status = 429

\* The source request ended without records: an error, a timeout, a body
\* that is no array, or an array with an item the mapping cannot read.
EndedWithoutRecords(r) ==
  \/ r.kind \in {"error", "timeout", "nodata", "object"}
  \/ r.kind = "array" /\ \E i \in DOMAIN r.items : r.items[i].isNull

\* C21: within one call of fetchHolidays at most one source request is in
\* flight at any time and at most three are issued; the first is issued when
\* the call begins, and each further one at the moment the one before it ends
\* without records (an error, a timeout, a body that does not conform); and
\* when every source request ends, the call ends with a result.
C21_OneSourceRequestAtATime ==
  /\ [](Cardinality(inflight) <= 1 /\ Len(requested) <= SourceCount)
  /\ [](inflight # {} <=> pc = "await")
  /\ [][requested' # requested /\ pc' # "idle" =>
          /\ \E url \in inflight' : inflight' = {url} /\ requested' = Append(requested, url)
          /\ fetched = "none" /\ fetched' = "none"
          /\ \/ pc = "validate" /\ requested = <<>>
             \/ /\ pc = "await"
                /\ inflight = {requested[Len(requested)]}
                /\ inflight' # inflight
                /\ \E r \in Responses : EndedWithoutRecords(r) /\ SourceResponds(r)]_vars
  /\ [][pc = "await" /\ pc' = "await" /\ requested' = requested => inflight' = inflight]_vars
  /\ (pc = "await") ~> (pc = "handle" /\ fetched \in {"source", "static"})

\* C21 witness: the third source request is in flight, after the first and
\* the second have ended without records.
C21_Witness ==
  /\ pc = "await"
  /\ Len(requested) = SourceCount
  /\ inflight = {requested[SourceCount]}
  /\ fetched = "none"

\* The value is an ISO calendar date: a string YYYY-MM-DD.
IsISODate(v) ==
  /\ v.k = "string"
  /\ Len(v.s) = 10
  /\ \A i \in 1..10 : IF i \in {5, 8} THEN v.s[i] = "-" ELSE v.s[i] \in Range(Digits)

\* C22 (as claimed): every record fetchHolidays returns, from a source or
\* from the static table, has an ISO calendar date and a name that is a
\* string and not empty; and in every 200 response the DTSTART;VALUE=DATE
\* line of each event block holds eight digits and nothing else.
C22_RecordsWellFormed ==
  /\ FetchEnded /\ fetched \in {"source", "static"} =>
       \A i \in DOMAIN holidays :
         /\ IsISODate(holidays[i].date)
         /\ holidays[i].name.k = "string"
         /\ holidays[i].name.s # <<>>
  /\ pc = "done" /\ res.status = 200 =>
       \A i \in DOMAIN holidays :
         LET starts == LinesOf(EventBlock(res.body, i), "DTSTART;VALUE=DATE:")
         IN  /\ Len(starts) = 1
             /\ Len(starts[1]) = 9
             /\ \A k \in 2..9 : starts[1][k] \in Range(Digits)

\* The source supplies a localized name for the item: a string that is not
\* empty and is not the item's name.
LocalizedNameSupplied(item) ==
  /\ item.localName.k = "string"
  /\ item.localName.s # <<>>
  /\ item.localName # item.name

\* C23: in the document made of a source's items, the block of an item
\* holds a DESCRIPTION line exactly when the source supplies a localized
\* name that is present, not empty and different from the name, and the line
\* is that localized name escaped; when the localized name is the name, or
\* absent, the block has no DESCRIPTION line.  A source whose localized names
\* are all strings, or absent, is answered with the document.
C23_DescriptionIffLocalizedName ==
  /\ pc = "done" /\ fetched = "source" /\ res.status = 200 =>
       \A i \in DOMAIN response.items :
         LET item == response.items[i]
             found == LinesOf(EventBlock(res.body, i), "DESCRIPTION:")
         IN  IF LocalizedNameSupplied(item)
             THEN found = << <<"DESCRIPTION:">> \o EscapedCharByChar(item.localName.s) >>
             ELSE found = <<>>
  /\ pc = "done" /\ fetched = "source" /\ response.items # <<>>
       /\ (\A i \in DOMAIN response.items :
             /\ response.items[i].date.k = "string"
             /\ response.items[i].name.k = "string"
             /\ response.items[i].localName.k # "number")
       => res.status = 200

\* C23 witness: a source answered with an item whose localized name is its
\* name and an item whose localized name is another text, and the document
\* has a DESCRIPTION line in the second block only.
C23_Witness ==
  /\ pc = "done"
  /\ fetched = "source"
  /\ res.status = 200
  /\ Len(response.items) = 2
  /\ response.items[1].localName = response.items[1].name
  /\ response.items[2].localName = JSString(<<"a",";","b",LF,"c">>)
  /\ LinesOf(EventBlock(res.body, 1), "DESCRIPTION:") = <<>>
  /\ LinesOf(EventBlock(res.body, 2), "DESCRIPTION:")
       = << <<"DESCRIPTION:", "a", BACKSLASH, ";", "b", BACKSLASH, "n", "c">> >>

\* The values of the DTSTAMP lines of a document.
StampValues(doc) ==
  LET stamps == LinesOf(SplitLines(doc), "DTSTAMP:")
  IN  {Tail(stamps[i]) : i \in DOMAIN stamps}

\* The digits of the date and of the time of an instant.
DateDigitsOf(now) == Pad(now.year, 4) \o Pad(now.month, 2) \o Pad(now.day, 2)
TimeDigitsOf(now) == Pad(now.hours, 2) \o Pad(now.minutes, 2) \o Pad(now.seconds, 2)

\* C24 (as claimed): the value of every DTSTAMP line is digits only,
\* followed by a Z.
C24_StampDigitsThenZ ==
  DocumentProduced =>
    \A v \in StampValues(res.body) :
      /\ Len(v) >= 2
      /\ v[Len(v)] = "Z"
      /\ \A k \in 1..(Len(v) - 1) : v[k] \in Range(Digits)

\* C24 (amended): the value of every DTSTAMP line is the eight digits of the
\* date, the letter T, the six digits of the time and a trailing Z, of one
\* instant: no '-', no ':', no '.', no fraction of a second.
C24_StampDateTTimeZ ==
  DocumentProduced =>
    \A v \in StampValues(res.body) :
      /\ Len(v) = 16
      /\ \A k \in 1..16 :
           CASE k = 9 -> v[k] = "T"
             [] k = 16 -> v[k] = "Z"
             [] OTHER -> v[k] \in Range(Digits)
      /\ \E now \in Instants : v = DateDigitsOf(now) \o <<"T">> \o TimeDigitsOf(now) \o <<"Z">>

\* C24 witness: a document with two event blocks carries the stamp
\* 20261130T235958Z.
C24_Witness ==
  /\ DocumentProduced
  /\ Len(holidays) = 2
  /\ Len(LinesOf(SplitLines(res.body), "DTSTAMP:")) = 2
  /\ {Str(v) : v \in StampValues(res.body)} = {"20261130T235958Z"}

\* C25: the static table is its initial value in every reachable state,
\* however many requests are handled at the same time and however their
\* steps interleave; the records of a request that ended at the static table
\* are the entry of the initial table for its own country and year (the
\* empty list without an entry), and the records of a request a source
\* answered are that answer's items: they depend on no other request.
C25_StaticTableNeverChanges ==
  /\ enhancedHolidays = InitialTable
  /\ \A c \in Concurrent :
       LET q == validatedQuery[c]
           key == Str(q.country) \o "-" \o Str(NumberToString(q.year))
       IN  /\ pc[c] \in {"handle", "done"} /\ fetched[c] = "static" =>
                holidays[c] = (IF key \in TableKeys THEN InitialTable[key] ELSE <<>>)
           /\ pc[c] \in {"handle", "done"} /\ fetched[c] = "source" =>
                /\ Len(holidays[c]) = Len(response[c].items)
                /\ \A i \in DOMAIN holidays[c] :
                     /\ holidays[c][i].date = response[c].items[i].date
                     /\ holidays[c][i].name = response[c].items[i].name

\* C25 witness: two requests for DE 2025 are handled at the same time; the
\* first has been answered with the document of the table's list, and the
\* second has just been handed the same list by fetchHolidays.
C25_Witness ==
  /\ pc[1] = "done" /\ fetched[1] = "static" /\ res[1].status = 200
  /\ pc[2] = "handle" /\ fetched[2] = "static"
  /\ validatedQuery[1] = validatedQuery[2]
  /\ holidays[2] = InitialTable["DE-2025"]
  /\ enhancedHolidays = InitialTable

\* The property names of the ten lines of the calendar header, in order.
HeaderProperties ==
  <<"BEGIN:VCALENDAR", "VERSION:2.0", "PRODID:", "CALSCALE:GREGORIAN", "METHOD:PUBLISH",
    "X-WR-CALNAME:",
    "X-WR-CALDESC:Public holidays calendar generated by Holiday Calendar API",
    "X-WR-TIMEZONE:UTC", "X-PUBLISHED-TTL:PT1H",
    "X-ORIGINAL-URL:https://rapidapi.com/holiday-calendar-api">>

\* C26: in the document returned for an accepted request, whatever its
\* region, the header is its ten lines (one of them the X-WR-CALNAME line,
\* and no other line of the document is one), the event blocks follow it,
\* one per record and each of the lines its record calls for, and
\* END:VCALENDAR is the line after the last block: the region adds no line,
\* no property and no event block.
C26_RegionAddsNoLines ==
  pc = "done" /\ Accepted /\ res.status = 200 =>
    LET ls == SplitLines(res.body)
        begins == LinesReading(ls, "BEGIN:VEVENT")
        ends == LinesReading(ls, "END:VEVENT")
        n == Len(holidays)
    IN  /\ Len(ls) > HeaderLength
        /\ \A k \in 1..HeaderLength : ls[k] # <<>> /\ ls[k][1] = HeaderProperties[k]
        /\ Len(LinesOf(ls, "X-WR-CALNAME:")) = 1
        /\ Len(begins) = n /\ Len(ends) = n
        /\ n > 0
        /\ begins[1] = HeaderLength + 1
        /\ ends[n] = Len(ls) - 1
        /\ \A i \in 1..n :
             /\ ends[i] - begins[i] + 1 = Len(BlockPattern(holidays[i]))
             /\ i < n => begins[i + 1] = ends[i] + 1

\* C26 witness: the request for DE 2025 with the region begin:vevent was
\* accepted and answered with a document whose calendar name line carries
\* the region.
C26_Witness ==
  /\ pc = "done"
  /\ Accepted
  /\ Str(validatedQuery.region.s) = "BEGIN:VEVENT"
  /\ res.status = 200
  /\ Str(LinesOf(SplitLines(res.body), "X-WR-CALNAME:")[1])
       = "X-WR-CALNAME:DE-BEGIN:VEVENT Public Holidays 2025"

\* The number of lines the blocks of the first n records are to have.
RECURSIVE BlockLinesUpTo(_, _)
BlockLinesUpTo(records, n) ==
  IF n = 0 THEN 0
  ELSE BlockLinesUpTo(records, n - 1) + Len(BlockPattern(records[n]))

\* C27: whatever the name and the description of the records, no line of
\* the document holds a raw CR or LF, the BEGIN:VEVENT and END:VEVENT lines
\* alternate, BEGIN first, and there are as many of each as records; each
\* block has one SUMMARY line and, for a record with a description, one
\* DESCRIPTION line, and the document has no line beyond the header, the
\* lines of the blocks and END:VCALENDAR.
C27_WellNested ==
  pc = "encoded" =>
    LET ls == SplitLines(res.body)
        marks == SelectSeq(ls, LAMBDA l : Str(l) \in {"BEGIN:VEVENT", "END:VEVENT"})
        n == Len(holidays)
    IN  /\ \A k \in DOMAIN ls : \A j \in DOMAIN ls[k] : ls[k][j] \notin {CR, LF}
        /\ Len(marks) = 2 * n
        /\ \A k \in DOMAIN marks :
             Str(marks[k]) = (IF k % 2 = 1 THEN "BEGIN:VEVENT" ELSE "END:VEVENT")
        /\ Len(ls) = HeaderLength + BlockLinesUpTo(holidays, n) + 1
        /\ \A i \in 1..n :
             /\ Len(LinesOf(EventBlock(res.body, i), "SUMMARY:")) = 1
             /\ Len(LinesOf(EventBlock(res.body, i), "DESCRIPTION:"))
                  = (IF Truthy(holidays[i].description) THEN 1 ELSE 0)

\* C27 witness: a document was produced from two records, the first with a
\* name and a description that hold CR LF, END:VEVENT and BEGIN:VEVENT.
C27_Witness ==
  /\ pc = "encoded"
  /\ Len(holidays) = 2
  /\ holidays[1].name = N_lines
  /\ holidays[1].description = N_lines
  /\ Len(LinesReading(SplitLines(res.body), "BEGIN:VEVENT")) = 2

\* C28 (as claimed): the year parameter of every request that passed
\* validateHolidayRequest is, as a whole, the decimal numeral of the
\* validated year; a request whose country is valid and whose year text goes
\* on after its digits is answered 400 INVALID_YEAR.
C28_WholeYearTextIsTheNumeral ==
  /\ Accepted =>
       /\ req.query.year.k = "string"
       /\ IsDecimalNumeral(req.query.year.s)
       /\ NumeralValue(req.query.year.s) = validatedQuery.year
  /\ pc = "done" /\ ~RateLimited /\ CountryInList(req.query)
       /\ ~YearMissing(req.query) /\ ~IsDecimalNumeral(req.query.year.s)
       => res.status = 400 /\ res.code = "INVALID_YEAR"

\* C29 (as claimed): in every 200 response the X-Holidays-Count header is
\* the number of records fetchHolidays returned and the number of
\* BEGIN:VEVENT lines of the body; X-Country is the upper-cased country of
\* the request and X-Year the validated year, the ones the source requests
\* were made with.
C29_HeadersMatchDocument ==
  pc = "done" /\ res.status = 200 =>
    LET count == res.headers["X-Holidays-Count"]
    IN  /\ IsDecimalNumeral(count)
        /\ NumeralValue(count) = Len(holidays)
        /\ NumeralValue(count) = Len(LinesReading(SplitLines(res.body), "BEGIN:VEVENT"))
        /\ res.headers["X-Country"] = toUpperCase(req.query.country.s)
        /\ IsDecimalNumeral(res.headers["X-Year"])
        /\ NumeralValue(res.headers["X-Year"]) = validatedQuery.year
        /\ requested = SubSeq(apis(res.headers["X-Country"], validatedQuery.year), 1,
                              Len(requested))

\* C30: the limiter runs first.  Nothing is validated, requested or answered
\* before the limiter has run; a request the limiter answers 429 is never
\* validated and no source is requested for it; the limiter counts every
\* request it is handed, and a request that validation then rejects (400) or
\* that is answered 404 keeps its place in the count: unless the window has
\* ended since, the count of its limiter includes it.
C30_LimiterRunsFirst ==
  /\ [](pc \in {"idle", "limiter"} =>
          limiter = "none" /\ ~Accepted /\ requested = <<>> /\ res = NoRes)
  /\ [](pc \in {"validate", "await", "handle", "done"} => limiter \in Limiters)
  /\ [](res.status = 429 =>
          /\ res.code = "RATE_LIMIT_EXCEEDED"
          /\ ~Accepted
          /\ requested = <<>> /\ inflight = {}
          /\ fetched = "none" /\ icsCalls = <<>>)
  /\ [][pc = "limiter" /\ pc' # "limiter" => hits'[limiter'] = hits[limiter'] + 1]_vars
  /\ [][(pc \in {"validate", "await", "handle"} /\ pc' = "done" /\ res'.status \in {400, 404})
          => (hits' = hits /\ limiter' = limiter)]_vars
  /\ [](pc = "done" /\ res.status \in {400, 404} => hits[limiter] >= 1 \/ hits = NoHits)

\* C30 witness: a request for a country outside the list, the first of its
\* window, was rejected by validation and is counted by the basic limiter.
C30_Witness ==
  /\ pc = "done"
  /\ res.status = 400
  /\ res.code = "INVALID_COUNTRY"
  /\ limiter = "basic"
  /\ hits = [NoHits EXCEPT !["basic"] = 1]
  /\ requested = <<>>

=============================================================================
